---------------------------- MODULE Spec2Model ----------------------------
(***************************************************************************)
(* Rule Execution Engine of TrialMonitor.                                  *)
(*                                                                         *)
(*   rules_engine/core/executor.py        RuleExecutor (router,            *)
(*                                        deterministic evaluator,         *)
(*                                        execute_all_rules)               *)
(*   rules_engine/evaluators/llm_evaluator.py                              *)
(*                                        LLMEvaluator (tool-calling loop, *)
(*                                        response parsing, mock strategy) *)
(*   api_sqlite.py                        evaluate_single_rule endpoint,   *)
(*                                        inner loop body of _run_batch_job*)
(*                                                                         *)
(* Python values are encoded as follows.  None for a string-valued field   *)
(* is the string "None"; a database or parameter value of varying type is  *)
(* a tagged record (Null, Num, Str); a list is a sequence; a dict is a     *)
(* record or a function whose DOMAIN is its key set; a formatted string is *)
(* the sequence of its parts.  Names are the source's names without the    *)
(* leading underscore.                                                     *)
(***************************************************************************)
EXTENDS Integers, Sequences, FiniteSets, TLC

VARIABLES
    rules,          \* RuleExecutor.rules: rule_id -> RuleConfig (read-only after load)
    subjects,       \* subjects/demographics tables: subject_id -> row
    mock_mode,      \* LLMEvaluator.mock_mode (no API key configured)
    pc,             \* "idle", or "llm": an LLMEvaluator.evaluate loop is in progress
    frame,          \* the execute_rule frame waiting for evaluate: caller, rule, subject, phase
    messages,       \* evaluate: the transcript `messages`
    tools_used,     \* evaluate: `tools_used`
    round_num,      \* evaluate: number of loop rounds completed
    api_calls,      \* evaluate: model-endpoint calls issued by this evaluation
    request,        \* the transcript carried by the latest model-endpoint request
    subject_results,    \* _run_batch_job: the rows collected for the subject
    subject_violations, \* _run_batch_job: the violations collected for it
    last_response,  \* what the model endpoint answered to the latest request
    ret,            \* outcome of the latest execute_rule call (result or raised exception)
    http,           \* response of the latest evaluate_single_rule request
    all_run,        \* execute_all_rules frame: remaining rule ids, results, violations
    all_ret,        \* outcome of the latest execute_all_rules call
    fc_args,        \* _evaluate_field_check: operator, field value and threshold of the calls
    fc_results,     \* _evaluate_field_check: rule_type -> result returned for fc_args
    repeat,         \* repeated execute_rule calls: arguments, outcomes, evaluations between
    batch_jobs,     \* api_sqlite._batch_jobs: job_id -> job record (process memory)
    batch_threads,  \* the _run_batch_job threads: job_id -> position and locals
    results_dir,    \* RESULTS_DIR: job_id -> the records written to <job_id>.json, in order
    submitted,      \* the job ids start_batch_evaluation has issued so far
    batch_reply,    \* what the latest batch request returned to its caller
    returned_done,  \* the job ids for which a status request has returned status done
    cancel_requests, \* the running jobs a client has asked the service to cancel
    usage_tracker,  \* llm_evaluator._usage_tracker: the four process-wide counters
    usage_workers,  \* the threads running LLMEvaluator.evaluate: position and locals
    usage_log,      \* what the evaluations did since the last reset
    loader          \* RuleExecutor._load_rules: the documents, the position, self.rules

\* the state of the rule executor and of the requests it serves
engine_vars ==
    <<rules, subjects, mock_mode, pc, frame, messages, tools_used,
      round_num, api_calls, request, last_response, ret, http, all_run, all_ret,
      subject_results, subject_violations>>

\* the state of the direct calls of _evaluate_field_check
field_check_vars == <<fc_args, fc_results>>

\* what the operations of the rule executor leave alone
batch_vars ==
    <<batch_jobs, batch_threads, results_dir, submitted, batch_reply, returned_done,
      cancel_requests>>

\* the usage accumulator and the threads that update it
usage_vars == <<usage_tracker, usage_workers, usage_log>>

other_vars == <<field_check_vars, repeat, batch_vars, usage_vars, loader>>

vars == <<engine_vars, other_vars>>

None == "None"

(***************************************************************************)
(* Enumerations of models/rule.py.                                         *)
(***************************************************************************)
DETERMINISTIC == "deterministic"
PATTERN_MATCH == "pattern_match"
LLM_TOOLS     == "llm_with_tools"
HYBRID        == "hybrid"

EvaluationType == {DETERMINISTIC, PATTERN_MATCH, LLM_TOOLS, HYBRID}

RuleSeverity == {"critical", "major", "minor", "info"}

(***************************************************************************)
(* RuleEvaluationResult with the dataclass defaults.                       *)
(***************************************************************************)
RuleEvaluationResult(rule_id, subject_id) ==
    [rule_id           |-> rule_id,
     subject_id        |-> subject_id,
     passed            |-> TRUE,
     violated          |-> FALSE,
     severity          |-> None,
     evidence          |-> <<>>,
     reasoning         |-> <<>>,
     confidence        |-> "high",
     evaluation_method |-> "",
     tools_used        |-> <<>>,
     action_required   |-> None,
     recommendation    |-> <<>>,
     missing_data      |-> <<>>,
     requires_review   |-> FALSE]

(***************************************************************************)
(* VisitContext: the optional argument of execute_rule.                    *)
(***************************************************************************)
NoVisitContext == [present |-> FALSE, study_phase |-> ""]

VisitContext(study_phase) == [present |-> TRUE, study_phase |-> study_phase]

VisitContexts ==
    {NoVisitContext} \cup
    {VisitContext(p) : p \in {"screening", "post_randomization", "treatment"}}

(***************************************************************************)
(* One entry of RuleConfig.applicable_phases as the YAML loader delivers   *)
(* it: a dict with or without the key 'check', or a null entry.            *)
(***************************************************************************)
PhaseConfig(check, action_if_violated, action_if_discovered) ==
    [is_dict |-> TRUE, has_check |-> TRUE, check |-> check,
     action_if_violated   |-> action_if_violated,
     action_if_discovered |-> action_if_discovered]

PhaseConfigNoCheck ==
    [is_dict |-> TRUE, has_check |-> FALSE, check |-> FALSE,
     action_if_violated |-> None, action_if_discovered |-> None]

PhaseConfigNull ==
    [is_dict |-> FALSE, has_check |-> FALSE, check |-> FALSE,
     action_if_violated |-> None, action_if_discovered |-> None]

\* phase_config = rule.applicable_phases.get(phase, {})
EmptyPhaseConfig == PhaseConfigNoCheck

RuleConfig(rule_id, category, evaluation_type, status, applicable_phases, parameters, tools_needed) ==
    [rule_id           |-> rule_id,
     category          |-> category,
     evaluation_type   |-> evaluation_type,
     status            |-> status,
     applicable_phases |-> applicable_phases,
     parameters        |-> parameters,
     severity          |-> "major",
     tools_needed      |-> tools_needed]

(***************************************************************************)
(* Python values read from the database or from rule parameters.           *)
(***************************************************************************)
Null   == [t |-> "null"]
Num(n) == [t |-> "num", n |-> n]
Str(s) == [t |-> "str", s |-> s]

(***************************************************************************)
(* The subjects table joined with demographics (ClinicalTools.get_subject) *)
(* and the subject's ongoing concomitant medications.                      *)
(***************************************************************************)
SubjectRow(subject_id, study_status, randomization_date, age, conmeds) ==
    [subject_id         |-> subject_id,
     study_status       |-> study_status,
     randomization_date |-> randomization_date,
     fields             |-> [age |-> age, consent_date |-> Str("2024-01-02")],
     conmeds            |-> conmeds]

\* laboratory_results: test_name -> test_value of the subject's row with the
\* latest collection_date (test_value is nullable); values in tenths
NoLabs == [test_name \in {} |-> Null]

LabTable ==
    [s101 |-> [ANC |-> Null, ALT |-> Null],
     s102 |-> NoLabs,
     s103 |-> [ANC |-> Num(20), ALT |-> Num(120)],
     s104 |-> [ANC |-> Num(10), ALT |-> Num(50)],
     s105 |-> [ANC |-> Num(15)]]

\* ecg_results: column -> the subject's non-null values ordered by ecg_date
NoEcgs == [column \in {} |-> <<>>]

EcgTable ==
    [s101 |-> NoEcgs,
     s102 |-> [qtcf_interval |-> <<450, 480>>],
     s103 |-> [qtcf_interval |-> <<480, 450>>],
     s104 |-> NoEcgs,
     s105 |-> [qtcf_interval |-> <<471>>]]

SubjectsTable ==
    [s101 |-> SubjectRow("s101", "Screening", None,         Num(17), <<"pembrolizumab">>),
     s102 |-> SubjectRow("s102", "Screening", "2024-02-01", Num(18), <<>>),
     s103 |-> SubjectRow("s103", "Enrolled",  "2024-02-01", Num(18), <<"aspirin", "pembrolizumab">>),
     s104 |-> SubjectRow("s104", "Enrolled",  None,         Null,    <<>>),
     s105 |-> SubjectRow("s105", None,        "",           Num(17), <<"aspirin">>)]

\* subject ids a caller may pass: the rows of the table and one unknown id
SubjectIds == DOMAIN SubjectsTable \cup {"s999"}

(***************************************************************************)
(* The registry RuleExecutor.rules after load_rules.                       *)
(***************************************************************************)
NoPhases == <<>>

AgeCheck(rule_type) ==
    [field_name |-> "age", operator |-> ">=", threshold |-> Num(18),
     rule_type |-> rule_type]

LabCheck(rule_type, test_name, operator, threshold) ==
    [test_name |-> test_name, operator |-> operator, threshold |-> threshold,
     rule_type |-> rule_type]

LoadedRules ==
    [INCL001 |-> RuleConfig("INCL001", "inclusion", DETERMINISTIC, "active",
                    NoPhases, AgeCheck("inclusion"), <<>>),
     EXCL001 |-> RuleConfig("EXCL001", "exclusion", LLM_TOOLS, "active",
                    [screening          |-> PhaseConfig(TRUE, "SCREEN_FAILURE", None),
                     post_randomization |-> PhaseConfig(TRUE, None, "PROTOCOL_DEVIATION"),
                     baseline           |-> PhaseConfig(FALSE, "SCREEN_FAILURE", None)],
                    [search_terms |-> [medications |-> <<"pembrolizumab">>]],
                    <<"check_conmeds">>),
     EXCL002 |-> RuleConfig("EXCL002", "exclusion", DETERMINISTIC, "active",
                    [screening          |-> PhaseConfig(TRUE, "SCREEN_FAILURE", None),
                     post_randomization |-> PhaseConfig(FALSE, None, "DISCONTINUE")],
                    AgeCheck("exclusion"), <<>>),
     EXCL003 |-> RuleConfig("EXCL003", "exclusion", DETERMINISTIC, "inactive",
                    NoPhases, AgeCheck("exclusion"), <<>>),
     EXCL004 |-> RuleConfig("EXCL004", "exclusion", LLM_TOOLS, "draft",
                    NoPhases,
                    [search_terms |-> [medications |-> <<"aspirin">>]],
                    <<"check_conmeds">>),
     DEV001  |-> RuleConfig("DEV001", "protocol_dose", HYBRID, "active",
                    NoPhases, <<>>, <<>>),
     DEV002  |-> RuleConfig("DEV002", "data_quality", PATTERN_MATCH, "active",
                    [screening |-> PhaseConfigNoCheck,
                     baseline  |-> PhaseConfig(TRUE, None, None)],
                    <<>>, <<>>),
     SAFE001 |-> RuleConfig("SAFE001", "safety_vital", DETERMINISTIC, "active",
                    [screening          |-> PhaseConfigNull,
                     post_randomization |-> PhaseConfig(TRUE, None, "SAFETY_REVIEW")],
                    <<>>, <<>>),
     DQ001   |-> RuleConfig("DQ001", "data_quality", DETERMINISTIC, "active",
                    NoPhases, [field_name |-> "age", threshold |-> Num(18)], <<>>),
     INCL002 |-> RuleConfig("INCL002", "inclusion", DETERMINISTIC, "active",
                    NoPhases, LabCheck("inclusion", "ANC", ">=", 15), <<>>),
     EXCL005 |-> RuleConfig("EXCL005", "exclusion", DETERMINISTIC, "active",
                    [screening          |-> PhaseConfig(TRUE, "SCREEN_FAILURE", None),
                     post_randomization |-> PhaseConfig(TRUE, "SCREEN_FAILURE",
                                                        "DISCONTINUE")],
                    LabCheck("exclusion", "ALT", ">", 100), <<>>),
     SAFE002 |-> RuleConfig("SAFE002", "safety_lab", DETERMINISTIC, "active",
                    NoPhases,
                    [test_name |-> "QTcF", operator |-> ">", threshold |-> 470,
                     timepoint |-> "screening"],
                    <<>>)]

\* rule ids a caller may pass: the registry's keys and one unknown id
RuleIds == DOMAIN LoadedRules \cup {"NOPE01"}

\* dict iteration order of self.rules (insertion order of load_rules)
RuleOrder ==
    <<"DEV001", "DEV002", "DQ001", "EXCL002", "EXCL003", "EXCL004", "EXCL005",
      "INCL001", "INCL002", "SAFE001", "SAFE002", "EXCL001">>

(***************************************************************************)
(* Outcomes of a database access: the query runs, or sqlite3 raises.       *)
(***************************************************************************)
DbOutcomes == {"ok", "get_subject_raises", "tools_raise"}

Raise(type, msg) == [kind |-> "raise", exc |-> [type |-> type, msg |-> msg]]

Return(result) == [kind |-> "return", result |-> result]

DbError == Raise("OperationalError", "database is locked")

\* ClinicalTools.get_subject: the row as a dict, or None
get_subject(subject_id) ==
    IF subject_id \in DOMAIN subjects
    THEN [found |-> TRUE,  row |-> subjects[subject_id]]
    ELSE [found |-> FALSE, row |-> SubjectRow(subject_id, None, None, Null, <<>>)]

(***************************************************************************)
(* RuleExecutor._determine_study_phase                                     *)
(***************************************************************************)
\* a variant that looks at the randomization date before the status
determine_study_phase_by_date(subject, visit_context) ==
    IF visit_context.present
    THEN visit_context.study_phase
    ELSE IF subject.randomization_date \notin {None, ""}
         THEN "post_randomization"
         ELSE IF subject.study_status = "Screening"
              THEN "screening"
              ELSE "baseline"
determine_study_phase(subject, visit_context) ==
    IF visit_context.present
    THEN visit_context.study_phase
    ELSE IF subject.study_status = "Screening"
         THEN "screening"
         ELSE IF subject.randomization_date \notin {None, ""}
              THEN "post_randomization"
              ELSE "baseline"

(***************************************************************************)
(* RuleExecutor._rule_applies_to_phase.  A null phase entry makes          *)
(* phase_config.get raise AttributeError.                                  *)
(***************************************************************************)
phase_config_of(rule, phase) ==
    IF phase \in DOMAIN rule.applicable_phases
    THEN rule.applicable_phases[phase]
    ELSE EmptyPhaseConfig

AttributeError == Raise("AttributeError", "'NoneType' object has no attribute 'get'")


\* a variant whose missing 'check' key counts as checked
rule_applies_unless_unchecked(rule, phase) ==
    IF DOMAIN rule.applicable_phases = {}
    THEN [kind |-> "value", value |-> TRUE]
    ELSE LET phase_config == phase_config_of(rule, phase)
         IN  IF ~phase_config.is_dict
             THEN AttributeError
             ELSE [kind |-> "value",
                   value |-> phase_config.has_check => phase_config.check]
rule_applies_to_phase(rule, phase) ==
    IF DOMAIN rule.applicable_phases = {}
    THEN [kind |-> "value", value |-> TRUE]
    ELSE LET phase_config == phase_config_of(rule, phase)
         IN  IF ~phase_config.is_dict
             THEN AttributeError
             ELSE [kind |-> "value",
                   value |-> phase_config.has_check /\ phase_config.check]

(***************************************************************************)
(* Python helpers: truthiness of an optional string, `a or b or c`,        *)
(* str(), str.lower() and float().                                         *)
(***************************************************************************)
Truthy(s) == s \notin {None, ""}

Or3(a, b, c) == IF Truthy(a) THEN a ELSE IF Truthy(b) THEN b ELSE c

Show(v) ==
    CASE v.t = "num"  -> ToString(v.n)
      [] v.t = "str"  -> v.s
      [] v.t = "null" -> None

LowerTable == [F |-> "f", M |-> "m", Yes |-> "yes", No |-> "no"]

Lower(s) == IF s \in DOMAIN LowerTable THEN LowerTable[s] ELSE s

\* float(a) succeeds on a number; a non-numeric string raises ValueError
IsFloat(v) == v.t = "num"

KeyError(key) == Raise("KeyError", key)

(***************************************************************************)
(* RuleExecutor._evaluate_field_check                                      *)
(***************************************************************************)
field_check_meets(operator, value, threshold) ==
    IF threshold.t = "null"
    THEN CASE operator = "!=" -> value.t # "null" /\ Show(value) # ""
           [] operator = "==" -> value.t = "null" \/ Show(value) = ""
           [] OTHER           -> FALSE
    ELSE CASE operator \in {">=", ">", "<=", "<"} ->
                IF IsFloat(value) /\ IsFloat(threshold)
                THEN CASE operator = ">=" -> value.n >= threshold.n
                       [] operator = ">"  -> value.n >  threshold.n
                       [] operator = "<=" -> value.n <= threshold.n
                       [] operator = "<"  -> value.n <  threshold.n
                ELSE FALSE           \* except (TypeError, ValueError): meets = False
           [] operator \in {"==", "in"} -> Lower(Show(value)) = Lower(Show(threshold))
           [] operator = "!="           -> Lower(Show(value)) # Lower(Show(threshold))
           [] OTHER                     -> FALSE

\* a variant without the inversion for inclusion rules
field_check_violated_as_met(rule_type, meets) == meets
\* if rule_type == 'inclusion': violated = not meets; else: violated = meets
field_check_violated(rule_type, meets) ==
    IF rule_type = "inclusion" THEN ~meets ELSE meets

evaluate_field_check(rule, subject_id, subject, study_phase, action) ==
    LET p == rule.parameters IN
    IF "operator" \notin DOMAIN p THEN KeyError("operator")
    ELSE IF "threshold" \notin DOMAIN p THEN KeyError("threshold")
    ELSE
    LET field_name == p.field_name
        operator   == p.operator
        threshold  == p.threshold
        rule_type  == IF "rule_type" \in DOMAIN p THEN p.rule_type ELSE "exclusion"
        value      == IF field_name \in DOMAIN subject.fields
                      THEN subject.fields[field_name] ELSE Null
    IN  IF value.t = "null"
        THEN Return([RuleEvaluationResult(rule.rule_id, subject_id) EXCEPT
                !.passed = FALSE,
                !.violated = FALSE,
                !.reasoning = <<"Field not found for subject", field_name>>,
                !.missing_data = <<field_name>>,
                !.requires_review = TRUE,
                !.evaluation_method = "deterministic"])
        ELSE
        LET meets    == field_check_meets(operator, value, threshold)
            violated == field_check_violated(rule_type, meets)
            evidence_str ==
                IF rule_type = "inclusion"
                THEN <<field_name, Show(value), "required", operator, Show(threshold),
                       IF meets THEN "PASS" ELSE "FAIL - criterion not met">>
                ELSE <<field_name, Show(value), operator, Show(threshold),
                       IF meets THEN "VIOLATION" ELSE "PASS">>
        IN  Return([RuleEvaluationResult(rule.rule_id, subject_id) EXCEPT
                !.passed = ~violated,
                !.violated = violated,
                !.severity = IF violated THEN rule.severity ELSE None,
                !.evidence = <<evidence_str>>,
                !.reasoning = <<"Field check">> \o evidence_str,
                !.confidence = "high",
                !.evaluation_method = "deterministic",
                !.tools_used = <<"check_demographics">>,
                !.action_required = IF violated THEN action ELSE None,
                !.recommendation =
                    <<IF rule_type = "inclusion"
                      THEN "Subject does not meet inclusion criterion"
                      ELSE "Subject meets exclusion criterion">>])

(***************************************************************************)
(* ClinicalTools.check_lab_threshold.  QTcF/QTc/QT are read from           *)
(* ecg_results (non-null values only, the earliest for timepoint           *)
(* 'screening', else the latest), every other test from laboratory_results *)
(* (latest row, value possibly null).  meets_criterion is True, False or   *)
(* None.                                                                   *)
(***************************************************************************)
EcgColumns == [QTCF |-> "qtcf_interval", QTC |-> "qtc_interval", QT |-> "qtc_interval"]

UpperTable == [QTcF |-> "QTCF", QTc |-> "QTC", ANC |-> "ANC", ALT |-> "ALT"]

Upper(s) == IF s \in DOMAIN UpperTable THEN UpperTable[s] ELSE s

lab_ops == {">=", ">", "<=", "<", "=="}

\* a Python value that is True, False or None
PyBool(b) == IF b THEN "True" ELSE "False"

\* `not x` for x in {True, False, None}
Falsy(x) == x \in {"False", None}

lab_compare(operator, a, b) ==
    CASE operator = ">=" -> a >= b
      [] operator = ">"  -> a > b
      [] operator = "<=" -> a <= b
      [] operator = "<"  -> a < b
      [] operator = "==" -> a = b

check_lab_threshold(subject_id, test_name, operator, threshold, timepoint) ==
    IF Upper(test_name) \in DOMAIN EcgColumns
    THEN LET ecg_col == EcgColumns[Upper(test_name)]
             ecgs    == IF subject_id \in DOMAIN EcgTable THEN EcgTable[subject_id]
                        ELSE NoEcgs
         IN  IF ecg_col \notin DOMAIN ecgs \/ Len(ecgs[ecg_col]) = 0
             THEN Return([meets_criterion |-> None, missing_data |-> TRUE,
                          evidence |-> <<"No result found in ECG data", test_name>>])
             ELSE LET value == IF timepoint = "screening" THEN Head(ecgs[ecg_col])
                               ELSE ecgs[ecg_col][Len(ecgs[ecg_col])]
                  IN  IF operator \notin lab_ops THEN KeyError(operator)
                      ELSE LET meets == lab_compare(operator, value, threshold)
                           IN  Return([meets_criterion |-> PyBool(meets),
                                       missing_data |-> FALSE,
                                       evidence |-> <<test_name, ToString(value), operator,
                                                      ToString(threshold),
                                                      IF meets THEN "VIOLATION"
                                                      ELSE "PASS">>])
    ELSE LET labs == IF subject_id \in DOMAIN LabTable THEN LabTable[subject_id]
                     ELSE NoLabs
         IN  IF test_name \notin DOMAIN labs
             THEN Return([meets_criterion |-> None, missing_data |-> TRUE,
                          evidence |-> <<"No result found", test_name>>])
             ELSE LET value == labs[test_name]
                  IN  IF value = Null
                      THEN Return([meets_criterion |-> None, missing_data |-> FALSE,
                                   evidence |-> <<test_name, None, operator,
                                                  ToString(threshold), "FAIL">>])
                      ELSE IF operator \notin lab_ops THEN KeyError(operator)
                      ELSE LET meets == lab_compare(operator, value.n, threshold)
                           IN  Return([meets_criterion |-> PyBool(meets),
                                       missing_data |-> FALSE,
                                       evidence |-> <<test_name, ToString(value.n),
                                                      operator, ToString(threshold),
                                                      IF meets THEN "PASS"
                                                      ELSE "FAIL">>])


\* the lab / ECG threshold branch of _evaluate_deterministic.  With
\* meets_criterion None an exclusion rule gets violated = None, which the
\* record below holds as FALSE: every reader of the field tests its truth.
evaluate_lab_threshold(rule, subject_id, study_phase, action, db) ==
    LET p == rule.parameters
        rule_type == IF "rule_type" \in DOMAIN p THEN p.rule_type ELSE "exclusion"
        timepoint == IF "timepoint" \in DOMAIN p THEN p.timepoint ELSE "latest"
    IN  IF "operator" \notin DOMAIN p THEN KeyError("operator")
        ELSE IF "threshold" \notin DOMAIN p THEN KeyError("threshold")
        ELSE IF db = "tools_raise" THEN DbError
        ELSE
        LET out == check_lab_threshold(subject_id, p.test_name, p.operator,
                                       p.threshold, timepoint)
        IN  IF out.kind = "raise" THEN out
            ELSE IF out.result.missing_data
            THEN Return([RuleEvaluationResult(rule.rule_id, subject_id) EXCEPT
                    !.passed = FALSE,
                    !.violated = FALSE,
                    !.evidence = <<out.result.evidence>>,
                    !.reasoning = <<"Missing required lab data">>,
                    !.missing_data = <<p.test_name>>,
                    !.requires_review = TRUE,
                    !.evaluation_method = "deterministic"])
            ELSE
            LET meets_criterion == out.result.meets_criterion
                violated == IF rule_type = "inclusion" THEN Falsy(meets_criterion)
                            ELSE ~Falsy(meets_criterion)
                evidence_str ==
                    IF rule_type = "inclusion"
                    THEN Append(out.result.evidence,
                                IF ~Falsy(meets_criterion)
                                THEN "PASS (meets inclusion criterion)"
                                ELSE "FAIL (does not meet inclusion criterion)")
                    ELSE out.result.evidence
            IN  Return([RuleEvaluationResult(rule.rule_id, subject_id) EXCEPT
                    !.passed = ~violated,
                    !.violated = violated,
                    !.severity = IF violated THEN rule.severity ELSE None,
                    !.evidence = <<evidence_str>>,
                    !.reasoning = <<"Laboratory check">> \o evidence_str,
                    !.confidence = "high",
                    !.evaluation_method = "deterministic",
                    !.tools_used = <<"check_lab_threshold">>,
                    !.action_required = IF violated THEN action ELSE None,
                    !.recommendation =
                        IF rule_type = "inclusion"
                        THEN <<IF ~Falsy(meets_criterion)
                               THEN "Subject meets lab inclusion criterion"
                               ELSE "Subject does NOT meet lab inclusion criterion">>
                        ELSE <<IF study_phase = "screening" THEN "Subject excluded"
                               ELSE "Subject flagged", action>>])

(***************************************************************************)
(* RuleExecutor._evaluate_deterministic: the check is selected by the      *)
(* shape of rule.parameters.  The registry holds field checks, lab and ECG *)
(* threshold checks and rules that match no check type.                    *)
(***************************************************************************)
evaluate_deterministic(rule, subject_id, subject, study_phase, db) ==
    LET phase_config == phase_config_of(rule, study_phase) IN
    IF ~phase_config.is_dict THEN AttributeError
    ELSE
    LET action == Or3(phase_config.action_if_violated,
                      phase_config.action_if_discovered,
                      "SCREEN_FAILURE")
    IN  IF "field_name" \in DOMAIN rule.parameters
        THEN evaluate_field_check(rule, subject_id, subject, study_phase, action)
        ELSE IF "test_name" \in DOMAIN rule.parameters
        THEN evaluate_lab_threshold(rule, subject_id, study_phase, action, db)
        ELSE Return([RuleEvaluationResult(rule.rule_id, subject_id) EXCEPT
                !.passed = TRUE,
                !.violated = FALSE,
                !.reasoning = <<"Deterministic check completed (no matching check type)">>,
                !.evaluation_method = "deterministic"])

(***************************************************************************)
(* RuleExecutor._evaluate_hybrid                                           *)
(***************************************************************************)
evaluate_hybrid(rule, subject_id, subject, study_phase) ==
    Return([RuleEvaluationResult(rule.rule_id, subject_id) EXCEPT
        !.passed = TRUE,
        !.violated = FALSE,
        !.reasoning = <<"Hybrid evaluation not yet implemented">>,
        !.evaluation_method = "hybrid"])

(***************************************************************************)
(* ClinicalTools.check_conmeds: the subject's ongoing medications whose    *)
(* name matches one of medication_names, in table order.                   *)
(***************************************************************************)
InSeq(x, seq) == \E i \in 1..Len(seq) : seq[i] = x

check_conmeds(subject_id, medication_names) ==
    LET meds == IF subject_id \in DOMAIN subjects
                THEN subjects[subject_id].conmeds ELSE <<>>
        Match(m) == Len(medication_names) = 0 \/ InSeq(m, medication_names)
        evidence == SelectSeq(meds, Match)
    IN  [found |-> Len(evidence) > 0, evidence |-> evidence]

(***************************************************************************)
(* LLMEvaluator._mock_evaluation: evidence is gathered with the tools the  *)
(* rule names in tools_needed, then the rule's category decides.           *)
(***************************************************************************)
MockSearch(rule, subject_id) ==
    LET cfg == IF "search_terms" \in DOMAIN rule.parameters
               THEN rule.parameters.search_terms ELSE <<>>
        med_names == IF "medications" \in DOMAIN cfg THEN cfg.medications ELSE <<>>
        searched  == InSeq("check_conmeds", rule.tools_needed) /\ Len(med_names) > 0
        result    == check_conmeds(subject_id, med_names)
    IN  [tools_used |-> IF searched THEN <<"check_conmeds">> ELSE <<>>,
         evidence   |-> IF searched /\ result.found THEN result.evidence ELSE <<>>]

mock_evaluation(rule, subject_id) ==
    LET search   == MockSearch(rule, subject_id)
        evidence == search.evidence
        found    == Len(evidence) > 0
        category == rule.category
        violated == IF category = "inclusion" THEN FALSE ELSE found
        requires_review ==
            IF category \in {"safety_ae", "safety_lab"} THEN violated ELSE TRUE
        action ==
            CASE category = "inclusion"                    -> None
              [] category \in {"safety_ae", "safety_lab"}  ->
                    IF violated THEN "SAFETY_REVIEW_REQUIRED" ELSE None
              [] category = "efficacy"                     ->
                    IF violated THEN "EFFICACY_REVIEW" ELSE None
              [] OTHER                                     ->
                    IF violated THEN "SCREEN_FAILURE" ELSE None
    IN  [RuleEvaluationResult(rule.rule_id, subject_id) EXCEPT
            !.passed = ~violated,
            !.violated = violated,
            !.severity = IF violated THEN rule.severity ELSE None,
            !.evidence = evidence,
            !.reasoning = <<"Mock evaluation", category>>,
            !.confidence = IF found THEN "high" ELSE "medium",
            !.evaluation_method = "llm_with_tools_mock",
            !.tools_used = search.tools_used,
            !.requires_review = requires_review,
            !.action_required = action,
            !.recommendation = <<IF violated THEN "review" ELSE "none">>]

(***************************************************************************)
(* RuleExecutor._evaluate_with_llm.  build_llm_context reads the medical   *)
(* history first; the part after evaluate() returns overrides the action   *)
(* of a violated result with the phase's action.                           *)
(***************************************************************************)
llm_override(rule, study_phase, result) ==
    IF result.violated
    THEN LET phase_config == phase_config_of(rule, study_phase)
             action == Or3(phase_config.action_if_violated,
                           phase_config.action_if_discovered,
                           "REQUIRES_REVIEW")
         IN  [result EXCEPT
                !.action_required = action,
                !.recommendation =
                    CASE study_phase = "screening" ->
                            <<"SCREEN FAILURE">> \o result.recommendation
                      [] study_phase = "post_randomization" ->
                            <<"PROTOCOL DEVIATION">> \o result.recommendation
                      [] OTHER -> result.recommendation]
    ELSE result

\* kind "llm": evaluate() runs the tool-calling loop against the model endpoint
AwaitLLM(study_phase) == [kind |-> "llm", study_phase |-> study_phase]

evaluate_with_llm(rule, subject_id, subject, study_phase, db) ==
    IF db = "tools_raise"
    THEN DbError                       \* raised in _build_llm_context
    ELSE IF mock_mode
         THEN Return(llm_override(rule, study_phase,
                                  mock_evaluation(rule, subject_id)))
         ELSE AwaitLLM(study_phase)

(***************************************************************************)
(* RuleExecutor.execute_rule.  ErrorResult is the except branch of the     *)
(* dispatch; everything before the try statement raises to the caller.     *)
(***************************************************************************)
ErrorResult(rule_id, subject_id, exc) ==
    [RuleEvaluationResult(rule_id, subject_id) EXCEPT
        !.passed = FALSE,
        !.violated = FALSE,
        !.reasoning = <<"Error during evaluation", exc.msg>>,
        !.requires_review = TRUE,
        !.confidence = "low"]

dispatch(rule, subject_id, subject, study_phase, db) ==
    LET out ==
            IF rule.evaluation_type = DETERMINISTIC
            THEN evaluate_deterministic(rule, subject_id, subject, study_phase, db)
            ELSE IF rule.evaluation_type = LLM_TOOLS
                 THEN evaluate_with_llm(rule, subject_id, subject, study_phase, db)
                 ELSE evaluate_hybrid(rule, subject_id, subject, study_phase)
    IN  IF out.kind = "raise"
        THEN Return(ErrorResult(rule.rule_id, subject_id, out.exc))
        ELSE out

\* a variant that treats only the literal status 'inactive' as inactive
rule_inactive_literal(rule) == rule.status = "inactive"
\* if rule.status != "active"
rule_inactive(rule) == rule.status # "active"

SkippedResult(rule_id, subject_id) ==
    [RuleEvaluationResult(rule_id, subject_id) EXCEPT
        !.passed = TRUE,
        !.violated = FALSE,
        !.reasoning = <<"Rule is inactive", rule_id>>,
        !.evaluation_method = "skipped"]

\* a variant that leaves requires_review at the dataclass default
SubjectNotFoundUnflagged(rule_id, subject_id) ==
    [RuleEvaluationResult(rule_id, subject_id) EXCEPT
        !.passed = FALSE,
        !.violated = FALSE,
        !.reasoning = <<"Subject not found", subject_id>>,
        !.missing_data = <<"subject_data">>]
\* if not subject
SubjectNotFound(rule_id, subject_id) ==
    [RuleEvaluationResult(rule_id, subject_id) EXCEPT
        !.passed = FALSE,
        !.violated = FALSE,
        !.reasoning = <<"Subject not found", subject_id>>,
        !.missing_data = <<"subject_data">>,
        !.requires_review = TRUE]

NotApplicable(rule_id, subject_id, study_phase) ==
    [RuleEvaluationResult(rule_id, subject_id) EXCEPT
        !.passed = TRUE,
        !.violated = FALSE,
        !.reasoning = <<"Rule does not apply to phase", study_phase>>,
        !.evaluation_method = "not_applicable"]

\* the outcome of a call together with the value of the local study_phase
At(study_phase, out) == [out |-> out, study_phase |-> study_phase]

execute_rule(rule_id, subject_id, visit_context, db) ==
    IF rule_id \notin DOMAIN rules
    THEN At(None, Raise("ValueError", "Rule not found"))
    ELSE
    LET rule == rules[rule_id] IN
    IF rule_inactive(rule)
    THEN At(None, Return(SkippedResult(rule_id, subject_id)))
    ELSE IF db = "get_subject_raises"
    THEN At(None, DbError)
    ELSE
    LET subject == get_subject(subject_id) IN
    IF ~subject.found
    THEN At(None, Return(SubjectNotFound(rule_id, subject_id)))
    ELSE
    LET study_phase == determine_study_phase(subject.row, visit_context)
        applies     == rule_applies_to_phase(rule, study_phase)
    IN  IF applies.kind = "raise"
        THEN At(study_phase, applies)
        ELSE IF ~applies.value
        THEN At(study_phase, Return(NotApplicable(rule_id, subject_id, study_phase)))
        ELSE At(study_phase,
                dispatch(rule, subject_id, subject.row, study_phase, db))

(***************************************************************************)
(* The model endpoint (self.client.messages.create).  A response is a list *)
(* of content blocks and a stop reason; the call may also raise (timeout,  *)
(* API error) or deliver a body the loop cannot iterate.                   *)
(***************************************************************************)
TextBlock(text) == [type |-> "text", text |-> text]

ToolUseBlock(id, name, input) ==
    [type |-> "tool_use", id |-> id, name |-> name, input |-> input]

ToolResultBlock(tool_use_id, content) ==
    [type |-> "tool_result", tool_use_id |-> tool_use_id, content |-> content]

Message(role, content) == [role |-> role, content |-> content]

\* what the parser can see in a text block: braces, well-formed JSON and its
\* keys, and the words of the keyword heuristic
TextPayloads ==
    [prose               |-> [braces |-> FALSE, json_ok |-> FALSE, keyword |-> FALSE,
                              data |-> <<>>],
     prose_violation     |-> [braces |-> FALSE, json_ok |-> FALSE, keyword |-> TRUE,
                              data |-> <<>>],
     json_excluded_true  |-> [braces |-> TRUE, json_ok |-> TRUE, keyword |-> TRUE,
                              data |-> [excluded |-> TRUE, confidence |-> "high",
                                        evidence |-> <<"pembrolizumab, ongoing">>,
                                        action_required |-> "EXCLUDE"]],
     json_excluded_false |-> [braces |-> TRUE, json_ok |-> TRUE, keyword |-> TRUE,
                              data |-> [excluded |-> FALSE, requires_review |-> TRUE,
                                        missing_data |-> <<"ecg">>]],
     json_violated_true  |-> [braces |-> TRUE, json_ok |-> TRUE, keyword |-> TRUE,
                              data |-> [violated |-> TRUE, confidence |-> "low"]],
     json_malformed      |-> [braces |-> TRUE, json_ok |-> FALSE, keyword |-> FALSE,
                              data |-> <<>>]]

\* the tool-use requests of a scripted response: name and whether the
\* arguments fit the tool's signature
ToolRequest(name, valid) == [type |-> "tool_use", name |-> name, valid |-> valid]

\* the largest number of tool-use blocks in one scripted response
MaxToolUses == 2

\* the tools the scripted model asks for, in turn: a name _execute_tool does
\* not know, a known tool with arguments its signature rejects, a known tool
\* with proper arguments
ToolCycle ==
    <<ToolRequest("no_such_tool", TRUE), ToolRequest("get_labs", FALSE),
      ToolRequest("check_conmeds", TRUE)>>

\* a response asking for k tools: a text block precedes a single request,
\* or stands between the first and the second of several
ToolScript(k) ==
    LET req == [i \in 1..k |->
                    ToolCycle[(((k * (k - 1)) \div 2 + i - 1) % Len(ToolCycle)) + 1]]
    IN  IF k = 1
        THEN <<TextBlock("json_excluded_true")>> \o req
        ELSE (<<req[1], TextBlock("prose")>>) \o SubSeq(req, 2, k)

\* what a response of the model can hold: nothing, one text block, a single
\* tool request, or as many tool requests as MaxToolUses allows
ScriptedContents ==
    {<<>>}
    \cup {<<TextBlock(t)>> : t \in DOMAIN TextPayloads}
    \cup {ToolScript(k) : k \in {1, MaxToolUses}}

StopReasons == {"end_turn", "tool_use"}

NoResponse == [kind |-> "none", content |-> <<>>, stop_reason |-> None]

\* the endpoint answers, times out, or answers with a body the client cannot
\* decode; it reports stop_reason "tool_use" only for content that holds a
\* tool-use block
ModelResponses ==
    {r \in [kind : {"ok"}, content : ScriptedContents, stop_reason : StopReasons] :
        r.stop_reason = "tool_use" =>
            \E i \in 1..Len(r.content) : r.content[i].type = "tool_use"}
    \cup {[kind |-> k, content |-> <<>>, stop_reason |-> None] :
            k \in {"timeout", "malformed"}}

IsToolUse(b) == b.type = "tool_use"

ToolUsesBefore(content, i) ==
    Cardinality({j \in 1..(i - 1) : IsToolUse(content[j])})

ToolUseCount(transcript) ==
    Cardinality({i \in 1..Len(transcript) :
                    transcript[i].content[1].type = "tool_result"})

\* the endpoint gives every tool-use block of a conversation a fresh id
Blocks(content, subject_id, issued) ==
    [i \in 1..Len(content) |->
        IF IsToolUse(content[i])
        THEN ToolUseBlock(issued + ToolUsesBefore(content, i) + 1,
                          content[i].name,
                          [subject_id |-> subject_id, valid |-> content[i].valid])
        ELSE content[i]]

(***************************************************************************)
(* LLMEvaluator._execute_tool                                              *)
(***************************************************************************)
tool_map ==
    {"check_medical_history", "check_conmeds", "check_lab_threshold",
     "get_ecg_results", "get_tumor_assessments", "get_adverse_events",
     "get_labs", "get_visits"}

execute_tool(tool_name, tool_input) ==
    IF tool_name \notin tool_map
    THEN [error |-> "Unknown tool", tool |-> tool_name, subject_id |-> None]
    ELSE IF ~tool_input.valid
         THEN [error |-> "TypeError", tool |-> tool_name, subject_id |-> None]
         ELSE [error |-> None, tool |-> tool_name,
               subject_id |-> tool_input.subject_id]

(***************************************************************************)
(* LLMEvaluator._parse_llm_response.  text_content is the concatenation of *)
(* the text blocks; the JSON candidate runs from the first "{" to the last *)
(* "}", so it is one block's object only if a single block has braces.     *)
(***************************************************************************)
JsonGet(data, key, default) == IF key \in DOMAIN data THEN data[key] ELSE default

\* a variant that never sets a severity
severity_left_unset(rule, violated) == None
\* severity=rule.severity if violated else None
severity_if_violated(rule, violated) == IF violated THEN rule.severity ELSE None

parse_llm_response(response, rule, subject_id, used) ==
    LET texts        == SelectSeq(response.content, LAMBDA b : b.type = "text")
        text_content == [i \in 1..Len(texts) |-> texts[i].text]
        braced       == {i \in 1..Len(texts) : TextPayloads[texts[i].text].braces}
        parsed       == Cardinality(braced) = 1
                        /\ \A i \in braced : TextPayloads[texts[i].text].json_ok
    IN  IF parsed
        THEN LET data == TextPayloads[texts[CHOOSE i \in braced : TRUE].text].data
                 excluded == JsonGet(data, "excluded", FALSE)
             IN  [RuleEvaluationResult(rule.rule_id, subject_id) EXCEPT
                    !.passed = ~excluded,
                    !.violated = excluded,
                    !.severity = severity_if_violated(rule, excluded),
                    !.evidence = JsonGet(data, "evidence", <<>>),
                    !.reasoning = JsonGet(data, "reasoning", text_content),
                    !.confidence = JsonGet(data, "confidence", "medium"),
                    !.evaluation_method = "llm_with_tools",
                    !.tools_used = used,
                    !.action_required = JsonGet(data, "action_required", None),
                    !.recommendation = JsonGet(data, "recommendation", <<>>),
                    !.missing_data = JsonGet(data, "missing_data", <<>>),
                    !.requires_review = JsonGet(data, "requires_review", FALSE)]
        ELSE LET violated ==
                    \E i \in 1..Len(texts) : TextPayloads[texts[i].text].keyword
             IN  [RuleEvaluationResult(rule.rule_id, subject_id) EXCEPT
                    !.passed = ~violated,
                    !.violated = violated,
                    !.severity = severity_if_violated(rule, violated),
                    !.evidence = <<>>,
                    !.reasoning = text_content,
                    !.confidence = "medium",
                    !.evaluation_method = "llm_with_tools",
                    !.tools_used = used,
                    !.requires_review = TRUE]

(***************************************************************************)
(* LLMEvaluator.evaluate, real mode.                                       *)
(***************************************************************************)
max_rounds == 5

\* a variant of the loop without the round cap
loop_unbounded(n) == n >= 0
\* for round_num in range(max_rounds)
loop_continues(n) == n < max_rounds

\* a variant of the except branch that leaves confidence and requires_review
\* at the dataclass defaults
LLMErrorResultDefaults(rule, subject_id, error) ==
    [RuleEvaluationResult(rule.rule_id, subject_id) EXCEPT
        !.passed = FALSE,
        !.violated = FALSE,
        !.reasoning = <<"LLM evaluation error", error>>,
        !.evaluation_method = "llm_with_tools"]
\* the except branch of evaluate
LLMErrorResult(rule, subject_id, error) ==
    [RuleEvaluationResult(rule.rule_id, subject_id) EXCEPT
        !.passed = FALSE,
        !.violated = FALSE,
        !.reasoning = <<"LLM evaluation error", error>>,
        !.confidence = "low",
        !.requires_review = TRUE,
        !.evaluation_method = "llm_with_tools"]

\* if not tool_calls_this_round or response.stop_reason == "end_turn"
is_final_response(tool_calls_this_round, stop_reason) ==
    Len(tool_calls_this_round) = 0 \/ stop_reason = "end_turn"

\* a variant in which tool_result_idx is never advanced
tool_result_messages_stuck(content, tool_results_this_round) ==
    LET uses == {i \in 1..Len(content) : IsToolUse(content[i])}
        Pos(k) == CHOOSE i \in uses : ToolUsesBefore(content, i) = k - 1
    IN  [k \in 1..Cardinality(uses) |->
            Message("user", <<ToolResultBlock(content[Pos(k)].id,
                                              tool_results_this_round[1])>>)]
\* results are collected in call order and paired through tool_result_idx
tool_result_messages(content, tool_results_this_round) ==
    LET uses == {i \in 1..Len(content) : IsToolUse(content[i])}
        Pos(k) == CHOOSE i \in uses : ToolUsesBefore(content, i) = k - 1
    IN  [k \in 1..Cardinality(uses) |->
            Message("user", <<ToolResultBlock(content[Pos(k)].id,
                                              tool_results_this_round[k])>>)]

\* a variant of the loop body in which the first failing tool call ends the
\* round: the calls after it are not executed and get no result
tool_round_aborting(content, transcript) ==
    LET tool_calls_this_round == SelectSeq(content, IsToolUse)
        results == [k \in 1..Len(tool_calls_this_round) |->
                        execute_tool(tool_calls_this_round[k].name,
                                     tool_calls_this_round[k].input)]
        failed  == {k \in 1..Len(tool_calls_this_round) : results[k].error # None}
        done    == IF failed = {} THEN Len(tool_calls_this_round)
                   ELSE CHOOSE k \in failed : \A j \in failed : k <= j
    IN  [messages   |-> (transcript \o <<Message("assistant", content)>>)
                        \o [k \in 1..done |->
                               Message("user",
                                       <<ToolResultBlock(tool_calls_this_round[k].id,
                                                         results[k])>>)],
         tools_used |-> [k \in 1..done |-> tool_calls_this_round[k].name]]
\* one pass of the loop body that ends in `continue`: the new transcript
\* and the names appended to tools_used
tool_round(content, transcript) ==
    LET tool_calls_this_round   == SelectSeq(content, IsToolUse)
        tool_results_this_round ==
            [k \in 1..Len(tool_calls_this_round) |->
                execute_tool(tool_calls_this_round[k].name,
                             tool_calls_this_round[k].input)]
    IN  [messages   |-> (transcript \o <<Message("assistant", content)>>)
                        \o tool_result_messages(content, tool_results_this_round),
         tools_used |-> [k \in 1..Len(tool_calls_this_round) |->
                            tool_calls_this_round[k].name]]

(***************************************************************************)
(* Violation.from_evaluation_result                                        *)
(***************************************************************************)
from_evaluation_result(result, violation_type) ==
    [rule_id         |-> result.rule_id,
     subject_id      |-> result.subject_id,
     violation_type  |-> violation_type,
     severity        |-> IF result.severity # None THEN result.severity ELSE "major",
     status          |-> "open",
     evidence        |-> result.evidence,
     reasoning       |-> result.reasoning,
     action_required |-> result.action_required,
     recommendation  |-> result.recommendation]

(***************************************************************************)
(* Frames and outcomes.                                                    *)
(***************************************************************************)
NoExc == [type |-> None, msg |-> None]

\* the arguments of a call of execute_rule, how the database behaved during
\* the call, and the value of the local study_phase
Frame(caller, rule_id, subject_id, visit_context, db, study_phase) ==
    [caller |-> caller, rule_id |-> rule_id, subject_id |-> subject_id,
     visit_context |-> visit_context, db |-> db, study_phase |-> study_phase]

NoFrame == Frame(None, None, None, NoVisitContext, None, None)

\* what execute_rule handed to its caller
Outcome(kind, fr, result, exc) ==
    [kind |-> kind, call |-> fr, result |-> result, exc |-> exc]

NoRet == Outcome("none", NoFrame, RuleEvaluationResult(None, None), NoExc)

NoHttp == [status |-> 0, body |-> RuleEvaluationResult(None, None), detail |-> None]

NoAllRun ==
    [active |-> FALSE, subject_id |-> None, categories |-> <<>>,
     visit_context |-> NoVisitContext, todo |-> <<>>,
     results |-> <<>>, violations |-> <<>>]

NoAllRet ==
    [kind |-> "none", subject_id |-> None, total_rules_executed |-> 0,
     violations_found |-> 0, results |-> <<>>, violations |-> <<>>, exc |-> NoExc]

\* the categories argument of execute_all_rules (None is the empty list)
CategoryFilters == {<<>>, <<"exclusion">>, <<"inclusion", "safety_vital">>}

\* the rules execute_all_rules still has to run: those the filter keeps
RECURSIVE skip_filtered(_, _)
skip_filtered(todo, categories) ==
    IF Len(todo) = 0 THEN todo
    ELSE IF Len(categories) > 0 /\ ~InSeq(rules[Head(todo)].category, categories)
         THEN skip_filtered(Tail(todo), categories)
         ELSE todo

TypeOK ==
    /\ pc \in {"idle", "llm"}
    /\ mock_mode \in BOOLEAN
    /\ round_num \in 0..max_rounds
    /\ api_calls \in Nat
    /\ ret.kind \in {"none", "return", "raise"}
    /\ all_ret.kind \in {"none", "return", "raise"}
    /\ all_run.active \in BOOLEAN

EngineInit ==
    /\ rules = LoadedRules
    /\ subjects = SubjectsTable
    /\ mock_mode \in BOOLEAN
    /\ pc = "idle"
    /\ frame = NoFrame
    /\ messages = <<>>
    /\ tools_used = <<>>
    /\ round_num = 0
    /\ api_calls = 0
    /\ request = <<>>
    /\ last_response = NoResponse
    /\ ret = NoRet
    /\ http = NoHttp
    /\ all_run = NoAllRun
    /\ all_ret = NoAllRet
    /\ subject_results = <<>>
    /\ subject_violations = <<>>

\* no direct call of _evaluate_field_check is set up
NoFieldCheck == [operator |-> None, value |-> Null, threshold |-> Null]

NoFieldResults == [rule_type \in {} |-> None]

\* no repeated call under observation
NoRepeat ==
    [rule_id |-> None, subject_id |-> None, visit_context |-> NoVisitContext,
     outcomes |-> <<>>, between |-> 0, evidence |-> <<>>]

JobIds == {"j1"}

NoJobs == [job_id \in {} |-> None]

NoReply == [request |-> None, job_id |-> None, code |-> 0, status |-> None]

\* the process has just started on an empty results directory
BatchInit ==
    /\ batch_jobs = NoJobs
    /\ batch_threads = NoJobs
    /\ results_dir = [job_id \in JobIds |-> <<>>]
    /\ submitted = {}
    /\ batch_reply = NoReply
    /\ returned_done = {}
    /\ cancel_requests = {}

(***************************************************************************)
(* llm_evaluator._usage_tracker and the threads that run evaluate().  The  *)
(* batch threads and the request handlers of the thread pool share the     *)
(* module-level dictionary; a worker is one of them.                       *)
(***************************************************************************)
Workers == {"t1", "t2"}

\* the evaluations a worker runs
MaxEvaluations == 1

\* the rounds of an evaluation in which the scripted endpoint asks for tools
MaxUsageRounds == 1

\* the four counters, in the order evaluate() updates them
Counters ==
    <<"total_input_tokens", "total_output_tokens", "total_api_calls",
      "llm_rule_evaluations">>

ZeroCounters == [c \in {Counters[i] : i \in 1..Len(Counters)} |-> 0]

\* response.usage: absent, or the token counts of the call
NoUsageReport == [present |-> FALSE, input_tokens |-> 0, output_tokens |-> 0]

UsageReports ==
    {NoUsageReport,
     [present |-> TRUE, input_tokens |-> 3, output_tokens |-> 1]}

IdleWorker ==
    [pc |-> "idle", round_num |-> 0, usage |-> NoUsageReport, final |-> FALSE,
     counter |-> None, loaded |-> 0, left |-> MaxEvaluations]

\* since the last reset: the increments the evaluations applied to each
\* counter, the model calls issued, the evaluations performed, whether two
\* evaluations overlapped, whether a reset came during an evaluation
NoUsageLog ==
    [recorded |-> ZeroCounters, calls_issued |-> 0, evaluations |-> 0,
     concurrent |-> FALSE, reset_raced |-> FALSE]

UsageInit ==
    /\ usage_tracker = ZeroCounters
    /\ usage_workers = [t \in Workers |-> IdleWorker]
    /\ usage_log = NoUsageLog

\* no registry load under observation
NoLoad == [docs |-> <<>>, next |-> 1, rules |-> <<>>, failed |-> FALSE]

Init ==
    /\ EngineInit
    /\ fc_args = NoFieldCheck
    /\ fc_results = NoFieldResults
    /\ repeat = NoRepeat
    /\ BatchInit
    /\ UsageInit
    /\ loader = NoLoad

(***************************************************************************)
(* Returning from execute_rule to its caller.                              *)
(*   api    : evaluate_single_rule maps ValueError to 404, any other       *)
(*            exception to 500, a result to its dict;                      *)
(*   direct : a library caller (test script, demo) receives the outcome;   *)
(*   all    : the loop body of execute_all_rules appends the result and a  *)
(*            Violation if result.violated; an exception leaves the loop.  *)
(***************************************************************************)
\* _run_batch_job: what the loop body keeps of a call of execute_rule
BatchRow(result, subject_id) == [result EXCEPT !.subject_id = subject_id]

BatchErrorRow(subject_id, rule_id, exc) ==
    [subject_id |-> subject_id, rule_id |-> rule_id, error |-> exc.msg,
     passed |-> FALSE]

BatchViolation(result, subject_id, rule_id) ==
    [subject_id |-> subject_id, rule_id |-> rule_id,
     severity |-> result.severity, action_required |-> result.action_required,
     evidence |-> result.evidence, reasoning |-> result.reasoning]

\* a variant of the endpoint without the `except ValueError` clause
HttpResponseAll500(out) ==
    IF out.kind = "raise"
    THEN [status |-> 500,
          body |-> RuleEvaluationResult(None, None), detail |-> out.exc.msg]
    ELSE [status |-> 200, body |-> out.result, detail |-> None]
HttpResponse(out) ==
    IF out.kind = "raise"
    THEN [status |-> IF out.exc.type = "ValueError" THEN 404 ELSE 500,
          body |-> RuleEvaluationResult(None, None), detail |-> out.exc.msg]
    ELSE [status |-> 200, body |-> out.result, detail |-> None]

\* a variant of the loop body that records a violation for every result
AllAppendUnconditional(run, result) ==
    [run EXCEPT
        !.todo = Tail(skip_filtered(run.todo, run.categories)),
        !.results = Append(run.results, result),
        !.violations = Append(run.violations, from_evaluation_result(result, "eligibility"))]
AllAppend(run, result) ==
    [run EXCEPT
        !.todo = Tail(skip_filtered(run.todo, run.categories)),
        !.results = Append(run.results, result),
        !.violations =
            IF result.violated
            THEN Append(run.violations, from_evaluation_result(result, "eligibility"))
            ELSE run.violations]

Deliver(fr, out) ==
    /\ pc' = "idle"
    /\ frame' = NoFrame
    /\ ret' = IF out.kind = "raise"
              THEN Outcome("raise", fr, RuleEvaluationResult(None, None), out.exc)
              ELSE Outcome("return", fr, out.result, NoExc)
    /\ http' = IF fr.caller = "api" THEN HttpResponse(out) ELSE NoHttp
    /\ IF fr.caller = "all"
       THEN IF out.kind = "raise"
            THEN /\ all_run' = NoAllRun
                 /\ all_ret' = [NoAllRet EXCEPT !.kind = "raise", !.exc = out.exc,
                                                !.subject_id = all_run.subject_id]
            ELSE /\ all_run' = AllAppend(all_run, out.result)
                 /\ UNCHANGED all_ret
       ELSE UNCHANGED <<all_run, all_ret>>
    /\ IF fr.caller = "batch"
       THEN IF out.kind = "raise"
            THEN /\ subject_results' =
                        Append(subject_results,
                               BatchErrorRow(fr.subject_id, fr.rule_id, out.exc))
                 /\ UNCHANGED subject_violations
            ELSE /\ subject_results' =
                        Append(subject_results, BatchRow(out.result, fr.subject_id))
                 /\ subject_violations' =
                        IF out.result.violated
                        THEN Append(subject_violations,
                                    BatchViolation(out.result, fr.subject_id, fr.rule_id))
                        ELSE subject_violations
       ELSE UNCHANGED <<subject_results, subject_violations>>

\* a call of execute_rule: it returns or raises at once, or evaluate() starts
\* the tool-calling loop with the context as the first message
Call(caller, rule_id, subject_id, visit_context, db) ==
    \E r \in {execute_rule(rule_id, subject_id, visit_context, db)} :
    \E fr \in {Frame(caller, rule_id, subject_id, visit_context, db, r.study_phase)} :
        IF r.out.kind = "llm"
        THEN /\ pc' = "llm"
             /\ frame' = fr
             /\ messages' = <<Message("user", <<TextBlock("context")>>)>>
             /\ tools_used' = <<>>
             /\ round_num' = 0
             /\ api_calls' = 0
             /\ request' = <<>>
             /\ last_response' = NoResponse
             /\ ret' = NoRet
             /\ http' = NoHttp
             /\ UNCHANGED <<all_run, all_ret, subject_results, subject_violations>>
        ELSE /\ Deliver(fr, r.out)
             /\ messages' = <<>>
             /\ tools_used' = <<>>
             /\ round_num' = 0
             /\ api_calls' = 0
             /\ request' = <<>>
             /\ last_response' = NoResponse

(***************************************************************************)
(* Entry points.                                                           *)
(***************************************************************************)
\* no call is in progress and the previous caller has taken its response
Idle ==
    /\ pc = "idle"
    /\ ~all_run.active
    /\ ret = NoRet
    /\ all_ret = NoAllRet
    /\ subject_results = <<>>

\* the caller of the finished call takes the response; the locals of the
\* call are gone
TakeResponse ==
    /\ pc = "idle"
    /\ ~all_run.active
    /\ ret # NoRet \/ all_ret # NoAllRet \/ subject_results # <<>>
    /\ ret' = NoRet
    /\ http' = NoHttp
    /\ all_ret' = NoAllRet
    /\ subject_results' = <<>>
    /\ subject_violations' = <<>>
    /\ messages' = <<>>
    /\ tools_used' = <<>>
    /\ round_num' = 0
    /\ api_calls' = 0
    /\ request' = <<>>
    /\ last_response' = NoResponse
    /\ UNCHANGED other_vars
    /\ UNCHANGED <<rules, subjects, mock_mode, pc, frame, all_run>>

\* POST /api/evaluate/subject/{subject_id}/rule/{rule_id}
EvaluateSingleRule(subject_id, rule_id) ==
    /\ Idle
    /\ \E db \in DbOutcomes :
          Call("api", rule_id, subject_id, NoVisitContext, db)
    /\ UNCHANGED other_vars
    /\ UNCHANGED <<rules, subjects, mock_mode>>

\* RuleExecutor.execute_rule called by a library client
ExecuteRule(rule_id, subject_id, visit_context) ==
    /\ Idle
    /\ \E db \in DbOutcomes :
          Call("direct", rule_id, subject_id, visit_context, db)
    /\ UNCHANGED other_vars
    /\ UNCHANGED <<rules, subjects, mock_mode>>

\* _run_batch_job: the body of `for rule_id in rules_to_run` for one subject
\* and one rule, from empty subject_results and subject_violations
BatchRuleStep(subject_id, rule_id) ==
    /\ Idle
    /\ \E db \in DbOutcomes :
          Call("batch", rule_id, subject_id, NoVisitContext, db)
    /\ UNCHANGED other_vars
    /\ UNCHANGED <<rules, subjects, mock_mode>>

\* RuleExecutor.execute_all_rules: entry, results = [], violations = []
ExecuteAllRules(subject_id, categories, visit_context) ==
    /\ Idle
    /\ all_run' = [active |-> TRUE, subject_id |-> subject_id,
                   categories |-> categories, visit_context |-> visit_context,
                   todo |-> RuleOrder, results |-> <<>>, violations |-> <<>>]
    /\ all_ret' = NoAllRet
    /\ ret' = NoRet
    /\ http' = NoHttp
    /\ messages' = <<>>
    /\ tools_used' = <<>>
    /\ round_num' = 0
    /\ api_calls' = 0
    /\ request' = <<>>
    /\ last_response' = NoResponse
    /\ UNCHANGED other_vars
    /\ UNCHANGED <<rules, subjects, mock_mode, pc, frame,
                   subject_results, subject_violations>>

\* one iteration of `for rule_id, rule in self.rules.items()`
ExecuteAllIterate ==
    /\ pc = "idle"
    /\ all_run.active
    /\ Len(skip_filtered(all_run.todo, all_run.categories)) > 0
    /\ \E db \in DbOutcomes :
          Call("all", Head(skip_filtered(all_run.todo, all_run.categories)),
               all_run.subject_id, all_run.visit_context, db)
    /\ UNCHANGED other_vars
    /\ UNCHANGED <<rules, subjects, mock_mode>>

\* the return statement of execute_all_rules
ExecuteAllReturn ==
    /\ pc = "idle"
    /\ all_run.active
    /\ Len(skip_filtered(all_run.todo, all_run.categories)) = 0
    /\ all_ret' = [kind |-> "return",
                   subject_id |-> all_run.subject_id,
                   total_rules_executed |-> Len(all_run.results),
                   violations_found |-> Len(all_run.violations),
                   results |-> all_run.results,
                   violations |-> all_run.violations,
                   exc |-> NoExc]
    /\ all_run' = NoAllRun
    /\ UNCHANGED other_vars
    /\ UNCHANGED <<rules, subjects, mock_mode, pc, frame, messages, tools_used,
                   round_num, api_calls, request,
                   last_response, ret, http, subject_results, subject_violations>>

(***************************************************************************)
(* LLMEvaluator.evaluate: a pass of the loop, and the call after the loop. *)
(* Each action issues one model call and runs the code up to the next call *)
(* or to the return of execute_rule.                                       *)
(***************************************************************************)
\* evaluate returns `result`; _evaluate_with_llm and execute_rule hand it on
EvaluateReturns(result) ==
    /\ Deliver(frame, Return(llm_override(rules[frame.rule_id],
                                          frame.study_phase, result)))
    /\ UNCHANGED <<messages, tools_used, round_num>>

LoopRound ==
    /\ pc = "llm"
    /\ loop_continues(round_num)
    /\ request' = messages
    /\ api_calls' = api_calls + 1
    /\ \E resp \in ModelResponses :
          LET rule == rules[frame.rule_id]
              content == Blocks(resp.content, frame.subject_id,
                                ToolUseCount(messages))
              received == [resp EXCEPT !.content = content]
              tool_calls_this_round == SelectSeq(content, IsToolUse)
          IN  /\ last_response' = received
              /\ IF resp.kind # "ok"
                     THEN EvaluateReturns(
                             LLMErrorResult(rule, frame.subject_id, resp.kind))
                     ELSE IF is_final_response(tool_calls_this_round, resp.stop_reason)
                     THEN EvaluateReturns(
                             parse_llm_response(received, rule, frame.subject_id,
                                                tools_used))
                     ELSE LET round == tool_round(content, messages)
                          IN  /\ messages' = round.messages
                              /\ tools_used' = tools_used \o round.tools_used
                              /\ round_num' = round_num + 1
                              /\ UNCHANGED <<pc, frame, ret, http, all_run, all_ret,
                                             subject_results, subject_violations>>
    /\ UNCHANGED other_vars
    /\ UNCHANGED <<rules, subjects, mock_mode>>

\* a variant that runs the tool calls of the response to the call after the
\* loop as a round of the loop does
final_tools_executed(used, content) ==
    used \o tool_round(content, <<>>).tools_used
\* return self._parse_llm_response(final_response, rule, subject_id, tools_used)
final_tools_used(used, content) == used

FinalCall ==
    /\ pc = "llm"
    /\ ~loop_continues(round_num)
    /\ request' = messages
    /\ api_calls' = api_calls + 1
    /\ \E resp \in ModelResponses :
          LET rule == rules[frame.rule_id]
                  content == Blocks(resp.content, frame.subject_id,
                                    ToolUseCount(messages))
                  final_response == [resp EXCEPT !.content = content]
          IN  /\ last_response' = final_response
                  /\ IF resp.kind # "ok"
                     THEN EvaluateReturns(
                             LLMErrorResult(rule, frame.subject_id, resp.kind))
                     ELSE EvaluateReturns(
                             parse_llm_response(final_response, rule, frame.subject_id,
                                                final_tools_used(tools_used, content)))
    /\ UNCHANGED other_vars
    /\ UNCHANGED <<rules, subjects, mock_mode>>

Next ==
    \/ \E s \in SubjectIds, r \in RuleIds : EvaluateSingleRule(s, r)
    \/ \E r \in RuleIds, s \in SubjectIds, vc \in VisitContexts : ExecuteRule(r, s, vc)
    \/ \E s \in SubjectIds, c \in CategoryFilters, vc \in VisitContexts :
          ExecuteAllRules(s, c, vc)
    \/ ExecuteAllIterate
    \/ ExecuteAllReturn
    \/ \E s \in SubjectIds, r \in RuleIds : BatchRuleStep(s, r)
    \/ LoopRound
    \/ FinalCall
    \/ TakeResponse

Spec == Init /\ [][Next]_vars

(***************************************************************************)
(* RuleExecutor._evaluate_field_check called on its own: one field value,  *)
(* operator and threshold, evaluated for rules that differ only in         *)
(* rule_type.                                                              *)
(***************************************************************************)
\* the operators of the ops table and one it does not hold
FieldOperators == {">=", ">", "<=", "<", "==", "!=", "in", "between"}

\* what subject.get(field_name) can give: nothing, numbers around the
\* threshold, text in either case, the empty string
FieldValues == {Null, Num(17), Num(18), Num(19), Str("F"), Str("f"), Str("")}

FieldThresholds == {Null, Num(18), Str("f")}

\* rule.parameters['rule_type']; None: the parameter is absent
RuleTypes == {"inclusion", "exclusion", "safety", None}

FieldCheckParameters(rule_type, operator, threshold) ==
    IF rule_type = None
    THEN [field_name |-> "age", operator |-> operator, threshold |-> threshold]
    ELSE [field_name |-> "age", operator |-> operator, threshold |-> threshold,
          rule_type |-> rule_type]

FieldCheckRule(rule_type, operator, threshold) ==
    RuleConfig("FC001", "inclusion", DETERMINISTIC, "active", NoPhases,
                   FieldCheckParameters(rule_type, operator, threshold), <<>>)

InitFieldCheck ==
    /\ EngineInit
    /\ fc_args \in [operator : FieldOperators, value : FieldValues,
                        threshold : FieldThresholds]
    /\ fc_results = NoFieldResults
    /\ repeat = NoRepeat
    /\ BatchInit
    /\ UsageInit
    /\ loader = NoLoad

\* self._evaluate_field_check(rule, subject_id, subject, study_phase, action)
EvaluateFieldCheck(rule_type) ==
    /\ rule_type \notin DOMAIN fc_results
    /\ fc_results' =
          fc_results @@
          (rule_type :>
             evaluate_field_check(
                    FieldCheckRule(rule_type, fc_args.operator, fc_args.threshold),
                    "s101",
                    SubjectRow("s101", "Screening", None, fc_args.value, <<>>),
                    "screening", "SCREEN_FAILURE"))
    /\ UNCHANGED <<fc_args, engine_vars, loader, usage_vars, repeat, batch_vars>>

NextFieldCheck == \E rule_type \in RuleTypes : EvaluateFieldCheck(rule_type)

SpecFieldCheck == InitFieldCheck /\ [][NextFieldCheck]_vars

(***************************************************************************)
(* Repeated evaluation: execute_rule is called for one rule, subject and   *)
(* visit context, then for any other rules and subjects, then again for    *)
(* the first arguments, on an unchanged and reachable database.  Between   *)
(* calls the process keeps the executor (rules, tools, evaluator); the     *)
(* lists an evaluation builds (`tools_used`, `evidence`) are locals.       *)
(* repeat.evidence is the evidence list the latest evaluation built.       *)
(***************************************************************************)
MaxBetween == 2

\* a variant in which the evidence list outlives the evaluation
evidence_list_kept(previous) == previous
\* _mock_evaluation: evidence = []
new_evidence_list(previous) == <<>>

\* a mock evaluation extends the list `evidence` starts as
extend_evidence(out) ==
    IF out.kind = "return" /\ out.result.evaluation_method = "llm_with_tools_mock"
    THEN [out EXCEPT !.result.evidence = new_evidence_list(repeat.evidence) \o @]
    ELSE out

\* execute_rule as one call on a database that answers
evaluate_again(rule_id, subject_id, visit_context) ==
    {extend_evidence(out) :
        out \in {execute_rule(rule_id, subject_id, visit_context, "ok").out}}

evidence_built(out) == IF out.kind = "return" THEN out.result.evidence ELSE <<>>

InitRepeat ==
    /\ EngineInit
    /\ fc_args = NoFieldCheck
    /\ fc_results = NoFieldResults
    /\ BatchInit
    /\ UsageInit
    /\ loader = NoLoad
    /\ \E rule_id \in RuleIds, subject_id \in SubjectIds, visit_context \in VisitContexts :
          repeat = [NoRepeat EXCEPT !.rule_id = rule_id, !.subject_id = subject_id,
                                        !.visit_context = visit_context]

\* execute_rule with the arguments under observation
RepeatCall ==
    /\ Len(repeat.outcomes) < 2
    /\ \E out \in evaluate_again(repeat.rule_id, repeat.subject_id, repeat.visit_context) :
          repeat' = [repeat EXCEPT !.outcomes = Append(@, out),
                                       !.evidence = evidence_built(out)]
    /\ UNCHANGED <<engine_vars, loader, usage_vars, field_check_vars, batch_vars>>

\* execute_rule with other arguments, between the two calls
RepeatOther(rule_id, subject_id, visit_context) ==
    /\ Len(repeat.outcomes) = 1
    /\ repeat.between < MaxBetween
    /\ <<rule_id, subject_id>> # <<repeat.rule_id, repeat.subject_id>>
    /\ \E out \in evaluate_again(rule_id, subject_id, visit_context) :
          repeat' = [repeat EXCEPT !.between = @ + 1,
                                       !.evidence = evidence_built(out)]
    /\ UNCHANGED <<engine_vars, loader, usage_vars, field_check_vars, batch_vars>>

NextRepeat ==
    \/ RepeatCall
    \/ \E rule_id \in RuleIds, subject_id \in SubjectIds :
          RepeatOther(rule_id, subject_id, NoVisitContext)

SpecRepeat == InitRepeat /\ [][NextRepeat]_vars

(***************************************************************************)
(* The batch orchestrator of api_sqlite.py: start_batch_evaluation,        *)
(* the _run_batch_job thread it starts, _save_batch_result and             *)
(* get_batch_status.  A thread is followed from one blocking call to the   *)
(* next: building the executor, evaluating a subject, writing the file.    *)
(* A restart of the process loses _batch_jobs and the threads and keeps    *)
(* the results directory.                                                  *)
(***************************************************************************)
\* SELECT subject_id FROM subjects ORDER BY subject_id
all_subjects == <<"s101", "s102", "s103", "s104", "s105">>

\* the request body: subject_ids "all" or a list, rule_ids a list or absent
BatchBodies ==
    [all : {TRUE}, subject_ids : {<<>>}, rule_ids : {<<>>}]
    \cup [all : {FALSE},
          subject_ids : {<<>>, <<"s103">>, <<"s101", "s999", "s103">>},
          rule_ids : {<<"INCL001", "NOPE01">>, <<"EXCL001", "INCL002">>}]

\* what a subject's evaluations meet: the state of the database and the
\* model's answer to an LLM rule
BatchEnvs ==
    [db : DbOutcomes,
     answer : {"json_excluded_false", "json_excluded_true", "timeout"}]

NominalEnv == [db |-> "ok", answer |-> "json_excluded_false"]

\* the largest number of subjects of one job that meet anything but NominalEnv
MaxIncidents == 1

StorageOutcomes == {"ok", "OSError"}

BatchJob(job_id, total) ==
    [job_id |-> job_id, status |-> "queued", total |-> total, completed |-> 0,
     progress_pct |-> 0, violations_so_far |-> 0,
     results |-> <<>>, all_violations |-> <<>>, total_violations |-> None,
     total_subjects |-> None, completed_subjects |-> None, error |-> None]

\* the locals of _run_batch_job: i and j count the subjects and the rules of
\* the current subject already handled, env is what this subject meets
BatchThread(subject_ids, rule_ids) ==
    [pc |-> "start", subject_ids |-> subject_ids, rule_ids |-> rule_ids,
     i |-> 0, j |-> 0, env |-> NominalEnv,
     subject_results |-> <<>>, subject_violations |-> <<>>,
     all_results |-> <<>>, all_violations |-> <<>>, incidents |-> 0]

\* round(x) for x = num / den >= 0: to the nearest integer, a half to the
\* even neighbour
py_round(num, den) ==
    LET q == num \div den
        r == num % den
    IN  IF 2 * r < den THEN q
        ELSE IF 2 * r > den THEN q + 1
        ELSE IF q % 2 = 0 THEN q ELSE q + 1

\* a variant that reports the fraction without the factor 100
progress_fraction(completed, total) == py_round(completed, total)
\* round(((i + 1) / total) * 100)
progress_pct(completed, total) == py_round(100 * completed, total)

\* executor.execute_rule(rule_id, subject_id) inside the batch: an LLM rule
\* in real mode is answered by the model in one round
batch_execute_rule(rule_id, subject_id, env) ==
    LET r == execute_rule(rule_id, subject_id, NoVisitContext, env.db)
    IN  IF r.out.kind # "llm" THEN r.out
        ELSE Return(llm_override(rules[rule_id], r.study_phase,
                    IF env.answer = "timeout"
                    THEN LLMErrorResult(rules[rule_id], subject_id, "timeout")
                    ELSE parse_llm_response([content |-> <<TextBlock(env.answer)>>],
                                            rules[rule_id], subject_id, <<>>)))

\* a variant of the rule loop without the inner try statement
raise_leaves_rule_loop(out) == out.kind = "raise"
\* the inner `except Exception` catches whatever execute_rule raises
escapes_rule_loop(out) == FALSE

\* rules_to_run = rule_ids if rule_ids else list(executor.rules.keys())
rules_to_run(rule_ids) == IF Len(rule_ids) > 0 THEN rule_ids ELSE RuleOrder

\* the except branch of _run_batch_job up to its call of _save_batch_result
job_failed(job, error) == [job EXCEPT !.status = "error", !.error = error]

\* final_data as _save_batch_result receives it: it has no 'total',
\* 'completed', 'progress_pct' or 'violations_so_far'
final_data(job) ==
    [job EXCEPT !.total = None, !.completed = None, !.progress_pct = None,
                    !.violations_so_far = None]

\* start_batch_evaluation: the job is recorded as queued, the thread is
\* started and the job id is returned
StartBatchEvaluation(job_id, body) ==
    /\ job_id \notin submitted
    /\ LET subject_ids == IF body.all THEN all_subjects ELSE body.subject_ids
       IN  /\ batch_jobs' = (job_id :> BatchJob(job_id, Len(subject_ids))) @@ batch_jobs
           /\ batch_threads' =
                      (job_id :> BatchThread(subject_ids, body.rule_ids)) @@ batch_threads
    /\ submitted' = submitted \cup {job_id}
    /\ batch_reply' = [request |-> "submit", job_id |-> job_id, code |-> 200,
                           status |-> "queued"]
    /\ UNCHANGED <<results_dir, returned_done, cancel_requests, engine_vars, loader, usage_vars, field_check_vars, repeat>>

\* _run_batch_job: the first statement
RunBatchJob(job_id) ==
    /\ batch_threads[job_id].pc = "start"
    /\ batch_jobs' = [batch_jobs EXCEPT ![job_id].status = "running"]
    /\ batch_threads' = [batch_threads EXCEPT ![job_id].pc = "executor"]
    /\ batch_reply' = NoReply
    /\ UNCHANGED <<results_dir, submitted, returned_done, cancel_requests,
                       engine_vars, loader, usage_vars, field_check_vars, repeat>>

\* executor = _get_executor(): the constructor raises when the database
\* file is gone
GetExecutor(job_id) ==
    /\ batch_threads[job_id].pc = "executor"
    /\ \/ /\ batch_threads' = [batch_threads EXCEPT ![job_id].pc = "loop"]
          /\ UNCHANGED batch_jobs
       \/ /\ batch_threads' = [batch_threads EXCEPT ![job_id].pc = "save_error"]
          /\ batch_jobs' = [batch_jobs EXCEPT
                                    ![job_id] = job_failed(@, "FileNotFoundError")]
    /\ batch_reply' = NoReply
    /\ UNCHANGED <<results_dir, submitted, returned_done, cancel_requests,
                       engine_vars, loader, usage_vars, field_check_vars, repeat>>

\* one pass of `for rule_id in rules_to_run`: the call of execute_rule and
\* what the loop body keeps of it
EvaluateRule(job_id) ==
    LET t == batch_threads[job_id]
        subject_id == t.subject_ids[t.i + 1]
        rule_id == rules_to_run(t.rule_ids)[t.j + 1]
    IN  /\ t.pc = "loop"
        /\ t.i < Len(t.subject_ids)
        /\ t.j < Len(rules_to_run(t.rule_ids))
        /\ \E env \in BatchEnvs :
                  /\ IF t.j = 0 THEN env # NominalEnv => t.incidents < MaxIncidents
                                ELSE env = t.env
                  /\ \E out \in {batch_execute_rule(rule_id, subject_id, env)} :
                        IF escapes_rule_loop(out)
                        THEN /\ batch_threads' = [batch_threads EXCEPT ![job_id].pc = "save_error"]
                             /\ batch_jobs' = [batch_jobs EXCEPT
                                                   ![job_id] = job_failed(@, out.exc.msg)]
                        ELSE /\ batch_threads' = [batch_threads EXCEPT
                                    ![job_id].j = t.j + 1,
                                    ![job_id].env = env,
                                    ![job_id].incidents =
                                        IF t.j = 0 /\ env # NominalEnv THEN @ + 1 ELSE @,
                                    ![job_id].subject_results =
                                        Append(@, IF out.kind = "raise"
                                                  THEN BatchErrorRow(subject_id, rule_id, out.exc)
                                                  ELSE BatchRow(out.result, subject_id)),
                                    ![job_id].subject_violations =
                                        IF out.kind = "return" /\ out.result.violated
                                        THEN Append(@, BatchViolation(out.result, subject_id,
                                                                      rule_id))
                                        ELSE @,
                                    ![job_id].all_violations =
                                        IF out.kind = "return" /\ out.result.violated
                                        THEN Append(@, BatchViolation(out.result, subject_id,
                                                                      rule_id))
                                        ELSE @]
                             /\ UNCHANGED batch_jobs
        /\ batch_reply' = NoReply
        /\ UNCHANGED <<results_dir, submitted, returned_done, cancel_requests,
                           engine_vars, loader, usage_vars, field_check_vars, repeat>>

\* the end of a pass of the loop over subject_ids: the subject's entry and
\* the progress fields
CompleteSubject(job_id) ==
    LET t == batch_threads[job_id]
        total == Len(t.subject_ids)
    IN  /\ t.pc = "loop"
        /\ t.i < total
        /\ t.j = Len(rules_to_run(t.rule_ids))
        /\ batch_threads' = [batch_threads EXCEPT
                   ![job_id].i = t.i + 1,
                   ![job_id].j = 0,
                   ![job_id].env = NominalEnv,
                   ![job_id].subject_results = <<>>,
                   ![job_id].subject_violations = <<>>,
                   ![job_id].all_results =
                        Append(@, [subject_id |-> t.subject_ids[t.i + 1],
                                   results |-> t.subject_results,
                                   violations |-> t.subject_violations,
                                   violations_found |-> Len(t.subject_violations)])]
        /\ batch_jobs' = [batch_jobs EXCEPT
                   ![job_id].completed = t.i + 1,
                   ![job_id].progress_pct = progress_pct(t.i + 1, total),
                   ![job_id].violations_so_far = Len(t.all_violations)]
        /\ batch_reply' = NoReply
        /\ UNCHANGED <<results_dir, submitted, returned_done, cancel_requests,
                           engine_vars, loader, usage_vars, field_check_vars, repeat>>

\* after the loop: _batch_jobs[job_id].update(final_data)
FinishBatchJob(job_id) ==
    LET t == batch_threads[job_id]
    IN  /\ t.pc = "loop"
        /\ t.i = Len(t.subject_ids)
        /\ batch_jobs' = [batch_jobs EXCEPT
                   ![job_id].status = "done",
                   ![job_id].results = t.all_results,
                   ![job_id].all_violations = t.all_violations,
                   ![job_id].total_violations = Len(t.all_violations),
                   ![job_id].total_subjects = Len(t.subject_ids),
                   ![job_id].completed_subjects = Len(t.subject_ids)]
        /\ batch_threads' = [batch_threads EXCEPT ![job_id].pc = "save"]
        /\ batch_reply' = NoReply
        /\ UNCHANGED <<results_dir, submitted, returned_done, cancel_requests,
                           engine_vars, loader, usage_vars, field_check_vars, repeat>>

\* _save_batch_result(job_id, final_data) in the try block; a failure to
\* write lands in the except branch
SaveBatchResult(job_id, outcome) ==
    /\ batch_threads[job_id].pc = "save"
    /\ IF outcome = "ok"
       THEN /\ results_dir' = [results_dir EXCEPT
                                      ![job_id] = Append(@, final_data(batch_jobs[job_id]))]
            /\ batch_threads' = [batch_threads EXCEPT ![job_id].pc = "exited"]
            /\ UNCHANGED batch_jobs
       ELSE /\ batch_jobs' = [batch_jobs EXCEPT ![job_id] = job_failed(@, outcome)]
            /\ batch_threads' = [batch_threads EXCEPT ![job_id].pc = "save_error"]
            /\ UNCHANGED results_dir
    /\ batch_reply' = NoReply
    /\ UNCHANGED <<submitted, returned_done, cancel_requests, engine_vars, loader, usage_vars, field_check_vars, repeat>>

\* _save_batch_result(job_id, {**_batch_jobs[job_id], "error": str(e)}) in
\* the except branch; a failure to write ends the thread
SaveBatchError(job_id, outcome) ==
    /\ batch_threads[job_id].pc = "save_error"
    /\ results_dir' = IF outcome = "ok"
                          THEN [results_dir EXCEPT ![job_id] = Append(@, batch_jobs[job_id])]
                          ELSE results_dir
    /\ batch_threads' = [batch_threads EXCEPT ![job_id].pc = "exited"]
    /\ batch_reply' = NoReply
    /\ UNCHANGED <<batch_jobs, submitted, returned_done, cancel_requests,
                       engine_vars, loader, usage_vars, field_check_vars, repeat>>

\* get_batch_status: the record in memory, else the file, else 404
GetBatchStatus(job_id) ==
    /\ batch_reply' =
          IF job_id \in DOMAIN batch_jobs
          THEN [request |-> "status", job_id |-> job_id, code |-> 200,
                    status |-> batch_jobs[job_id].status]
          ELSE IF job_id \in DOMAIN results_dir /\ Len(results_dir[job_id]) > 0
          THEN [request |-> "status", job_id |-> job_id, code |-> 200,
                    status |-> results_dir[job_id][Len(results_dir[job_id])].status]
          ELSE [request |-> "status", job_id |-> job_id, code |-> 404, status |-> None]
    /\ returned_done' = IF batch_reply'.status = "done"
                            THEN returned_done \cup {job_id} ELSE returned_done
    /\ UNCHANGED <<batch_jobs, batch_threads, results_dir, submitted, cancel_requests,
                       engine_vars, loader, usage_vars, field_check_vars, repeat>>

\* the process is restarted: memory and daemon threads are gone
Restart ==
    /\ batch_jobs # NoJobs
    /\ batch_jobs' = NoJobs
    /\ batch_threads' = NoJobs
    /\ batch_reply' = NoReply
    /\ UNCHANGED <<results_dir, submitted, returned_done, cancel_requests,
                       engine_vars, loader, usage_vars, field_check_vars, repeat>>

\* a client asks for a running job to be cancelled.  The application has
\* no route that takes the request: DELETE on the status path is answered
\* 405 by the framework and nothing reads the request afterwards
CancelBatch(job_id) ==
    /\ job_id \in DOMAIN batch_jobs
    /\ batch_jobs[job_id].status = "running"
    /\ job_id \notin cancel_requests
    /\ cancel_requests' = cancel_requests \cup {job_id}
    /\ batch_reply' = [request |-> "cancel", job_id |-> job_id, code |-> 405,
                       status |-> None]
    /\ UNCHANGED <<batch_jobs, batch_threads, results_dir, submitted, returned_done,
                   engine_vars, loader, usage_vars, field_check_vars, repeat>>

\* the job ids a client may ask about: "j0" is never issued
QueriedIds == JobIds \cup {"j0"}

NextBatch ==
    \/ \E job_id \in JobIds, body \in BatchBodies : StartBatchEvaluation(job_id, body)
    \/ \E job_id \in DOMAIN batch_threads : RunBatchJob(job_id)
    \/ \E job_id \in DOMAIN batch_threads : GetExecutor(job_id)
    \/ \E job_id \in DOMAIN batch_threads : EvaluateRule(job_id)
    \/ \E job_id \in DOMAIN batch_threads : CompleteSubject(job_id)
    \/ \E job_id \in DOMAIN batch_threads : FinishBatchJob(job_id)
    \/ \E job_id \in DOMAIN batch_threads, outcome \in StorageOutcomes :
          SaveBatchResult(job_id, outcome)
    \/ \E job_id \in DOMAIN batch_threads, outcome \in StorageOutcomes :
          SaveBatchError(job_id, outcome)
    \/ \E job_id \in QueriedIds : GetBatchStatus(job_id)
    \/ \E job_id \in JobIds : CancelBatch(job_id)
    \/ Restart

SpecBatch == Init /\ [][NextBatch]_vars

\* a step of the thread of a job; the operating system schedules every
\* thread that can run
ThreadStep(job_id) ==
    /\ job_id \in DOMAIN batch_threads
    /\ \/ RunBatchJob(job_id)
       \/ GetExecutor(job_id)
       \/ EvaluateRule(job_id)
       \/ CompleteSubject(job_id)
       \/ FinishBatchJob(job_id)
       \/ \E outcome \in StorageOutcomes : SaveBatchResult(job_id, outcome)
       \/ \E outcome \in StorageOutcomes : SaveBatchError(job_id, outcome)

SpecBatchFair == SpecBatch /\ \A job_id \in JobIds : WF_vars(ThreadStep(job_id))

(***************************************************************************)
(* RuleExecutor._load_rules.  A configuration document is what             *)
(* yaml.safe_load makes of a file (or its failure); a rule entry is an     *)
(* element of a list found under a top-level key.                          *)
(***************************************************************************)
RuleCategory ==
    {"exclusion", "inclusion", "safety_ae", "safety_lab", "safety_vital",
     "protocol_visit", "protocol_dose", "data_quality", "efficacy"}

RuleComplexity == {"simple", "medium", "complex"}

RequiredKeys ==
    {"rule_id", "name", "description", "category", "complexity", "evaluation_type",
     "template_name"}

RuleData(rule_id, category, status) ==
    [rule_id |-> rule_id, name |-> "n", description |-> "d", category |-> category,
     complexity |-> "simple", evaluation_type |-> DETERMINISTIC,
     template_name |-> "t", status |-> status]

\* the entries of the documents: a string, records without rule_id, without
\* name, with a category or a severity the enums reject, and records that
\* parse (two of them with the same rule_id)
EntryTable ==
    [text        |-> [is_dict |-> FALSE, data |-> <<>>],
     no_id       |-> [is_dict |-> TRUE,
                      data |-> [name |-> "n", category |-> "exclusion"]],
     no_name     |-> [is_dict |-> TRUE,
                      data |-> [rule_id |-> "R3", category |-> "exclusion"]],
     bad_enum    |-> [is_dict |-> TRUE,
                      data |-> RuleData("R4", "eligibility", "active")],
     bad_severity |-> [is_dict |-> TRUE,
                      data |-> RuleData("R5", "inclusion", "active") @@
                               [severity |-> "blocker"]],
     good_R1     |-> [is_dict |-> TRUE, data |-> RuleData("R1", "exclusion", "active")],
     good_R2     |-> [is_dict |-> TRUE,
                      data |-> RuleData("R2", "inclusion", "active") @@
                               [severity |-> "critical",
                                tools_needed |-> <<"check_conmeds">>]],
     good_R2_off |-> [is_dict |-> TRUE, data |-> RuleData("R2", "inclusion", "inactive")]]

Item(key, is_list, value) == [key |-> key, is_list |-> is_list, value |-> value]

\* the documents: a file yaml cannot parse, an empty file, a file whose top
\* level is a list, and mappings with a metadata block, scalars and lists
DocumentTable ==
    [unparsable |-> [parse |-> "error", config |-> "none", items |-> <<>>],
     empty      |-> [parse |-> "ok", config |-> "none", items |-> <<>>],
     top_list   |-> [parse |-> "ok", config |-> "list", items |-> <<>>],
     mixed      |-> [parse |-> "ok", config |-> "mapping",
                     items |-> <<Item("protocol", TRUE, <<"good_R1">>),
                                 Item("version", FALSE, <<>>),
                                 Item("exclusion_rules", TRUE,
                                      <<"text", "good_R2", "no_name", "no_id",
                                        "bad_enum", "good_R1">>)>>],
     plain      |-> [parse |-> "ok", config |-> "mapping",
                     items |-> <<Item("inclusion_rules", TRUE,
                                      <<"bad_severity", "good_R2_off">>)>>]]

\* the files of config_dir
MaxDocuments == 3

DocumentLists ==
    UNION {[1..n -> DOMAIN DocumentTable] : n \in 0..MaxDocuments}

\* RuleExecutor._parse_rule_config
parse_rule_config(data) ==
    IF ~(RequiredKeys \subseteq DOMAIN data)
    THEN KeyError("missing key")
    ELSE IF \/ data.category \notin RuleCategory
            \/ data.complexity \notin RuleComplexity
            \/ data.evaluation_type \notin EvaluationType
            \/ JsonGet(data, "severity", "major") \notin RuleSeverity
         THEN Raise("ValueError", "not a valid enum value")
         ELSE Return([RuleConfig(data.rule_id, data.category, data.evaluation_type,
                                 JsonGet(data, "status", "active"),
                                 JsonGet(data, "applicable_phases", NoPhases),
                                 JsonGet(data, "parameters", <<>>),
                                 JsonGet(data, "tools_needed", <<>>))
                        EXCEPT !.severity = JsonGet(data, "severity", "major")])

\* a variant without the try statement around _parse_rule_config
entry_error_raised(out) == out.kind = "raise"
\* except Exception as e: print(...) inside the loop over the entries
entry_error_escapes(out) == FALSE

\* the loop over the entries of one list: the registry afterwards, and
\* whether an exception left the loop
RECURSIVE load_entries(_, _)
load_entries(registry, entries) ==
    IF Len(entries) = 0
    THEN [rules |-> registry, raised |-> FALSE]
    ELSE LET rule_data == EntryTable[Head(entries)]
         IN  IF ~rule_data.is_dict \/ "rule_id" \notin DOMAIN rule_data.data
             THEN load_entries(registry, Tail(entries))
             ELSE LET out == parse_rule_config(rule_data.data)
                  IN  IF out.kind = "return"
                      THEN load_entries(
                              (out.result.rule_id :> out.result) @@ registry,
                              Tail(entries))
                      ELSE IF entry_error_escapes(out)
                           THEN [rules |-> registry, raised |-> TRUE]
                           ELSE load_entries(registry, Tail(entries))

\* the loop over config.items(): the registry afterwards, and whether an
\* exception left the loop
RECURSIVE load_items(_, _)
load_items(registry, items) ==
    IF Len(items) = 0
    THEN [rules |-> registry, raised |-> FALSE]
    ELSE LET item == Head(items)
         IN  IF item.key = "protocol" \/ ~item.is_list
             THEN load_items(registry, Tail(items))
             ELSE LET loaded == load_entries(registry, item.value)
                  IN  IF loaded.raised
                      THEN loaded
                      ELSE load_items(loaded.rules, Tail(items))

\* a variant without the try statement around the work on a file
document_error_raised(raised) == raised
\* except Exception as e: print(...) inside the loop over the files
document_error_escapes(raised) == FALSE

\* one pass of `for yaml_file in yaml_files`: yaml.safe_load raises on a
\* file it cannot parse, config.items() raises on a list; `if not config:
\* continue` passes over an empty file
load_document(registry, doc) ==
    IF doc.parse = "error" \/ doc.config = "list"
    THEN [rules |-> registry, raised |-> document_error_escapes(TRUE)]
    ELSE IF doc.config = "none"
    THEN [rules |-> registry, raised |-> FALSE]
    ELSE LET loaded == load_items(registry, doc.items)
         IN  [rules |-> loaded.rules, raised |-> document_error_escapes(loaded.raised)]

InitLoad ==
    /\ EngineInit
    /\ fc_args = NoFieldCheck
    /\ fc_results = NoFieldResults
    /\ repeat = NoRepeat
    /\ BatchInit
    /\ UsageInit
    /\ \E docs \in DocumentLists : loader = [NoLoad EXCEPT !.docs = docs]

\* an exception that leaves the loop ends the constructor
LoadDocument ==
    /\ loader.next <= Len(loader.docs)
    /\ ~loader.failed
    /\ \E loaded \in {load_document(loader.rules,
                                     DocumentTable[loader.docs[loader.next]])} :
          loader' = [loader EXCEPT !.next = @ + 1,
                                   !.rules = loaded.rules,
                                   !.failed = loaded.raised]
    /\ UNCHANGED <<engine_vars, field_check_vars, repeat, batch_vars, usage_vars>>

NextLoad == LoadDocument

SpecLoad == InitLoad /\ [][NextLoad]_vars

(***************************************************************************)
(* Usage accounting of LLMEvaluator.evaluate.  `_usage_tracker[k] += n`    *)
(* reads the counter, adds, and stores the sum; no lock is held, so the    *)
(* steps of another thread may come between the read and the store.        *)
(***************************************************************************)
RECURSIVE CounterAfter(_, _)
CounterAfter(counter, i) ==
    IF Counters[i] = counter THEN Counters[i + 1] ELSE CounterAfter(counter, i + 1)

\* the right-hand side of the `+=` on `counter`
increment(worker) ==
    CASE worker.counter = "total_input_tokens"  -> worker.usage.input_tokens
      [] worker.counter = "total_output_tokens" -> worker.usage.output_tokens
      [] OTHER                                  -> 1

Busy(t) == usage_workers[t].pc # "idle"

\* evaluate() is entered; in mock mode _mock_evaluation returns at once
StartEvaluate(t) ==
    /\ usage_workers[t].pc = "idle"
    /\ usage_workers[t].left > 0
    /\ IF mock_mode
       THEN /\ usage_workers' = [usage_workers EXCEPT ![t].left = @ - 1]
            /\ usage_log' = [usage_log EXCEPT !.evaluations = @ + 1]
       ELSE /\ usage_workers' = [usage_workers EXCEPT ![t].pc = "call",
                                                          ![t].round_num = 0]
            /\ usage_log' =
                      [usage_log EXCEPT
                          !.concurrent = @ \/ \E o \in Workers \ {t} : Busy(o)]
    /\ UNCHANGED usage_tracker
    /\ UNCHANGED <<engine_vars, loader, field_check_vars, repeat, batch_vars>>

\* self.client.messages.create in the loop or after it, up to the first
\* counter update, the return or the next call
MessagesCreate(t) ==
    /\ usage_workers[t].pc = "call"
    /\ \E resp \in ModelResponses, usage \in UsageReports :
          LET worker == usage_workers[t]
              tool_calls_this_round == SelectSeq(resp.content, IsToolUse)
              final == \/ ~loop_continues(worker.round_num)
                       \/ is_final_response(tool_calls_this_round, resp.stop_reason)
          IN  /\ final \/ worker.round_num < MaxUsageRounds
              /\ IF resp.kind # "ok"
                 THEN \* except Exception: the error result is returned
                      /\ usage_workers' =
                            [usage_workers EXCEPT
                                ![t] = [IdleWorker EXCEPT !.left = worker.left - 1]]
                      /\ usage_log' = [usage_log EXCEPT !.calls_issued = @ + 1,
                                                        !.evaluations = @ + 1]
                 ELSE /\ usage_log' = [usage_log EXCEPT !.calls_issued = @ + 1]
                      /\ usage_workers' =
                            [usage_workers EXCEPT
                                ![t] = IF usage.present
                                       THEN [worker EXCEPT
                                               !.pc = "load", !.usage = usage,
                                               !.final = final,
                                               !.counter = "total_input_tokens"]
                                       ELSE IF final
                                       THEN [worker EXCEPT
                                               !.pc = "load", !.usage = usage,
                                               !.final = final,
                                               !.counter = "llm_rule_evaluations"]
                                       ELSE [worker EXCEPT
                                               !.round_num = @ + 1]]
    /\ UNCHANGED usage_tracker
    /\ UNCHANGED <<engine_vars, loader, field_check_vars, repeat, batch_vars>>

\* the read of `_usage_tracker[counter] += n`
LoadCounter(t) ==
    /\ usage_workers[t].pc = "load"
    /\ usage_workers' =
          [usage_workers EXCEPT
              ![t].pc = "store",
              ![t].loaded = usage_tracker[usage_workers[t].counter]]
    /\ UNCHANGED <<usage_tracker, usage_log>>
    /\ UNCHANGED <<engine_vars, loader, field_check_vars, repeat, batch_vars>>

\* the store of `_usage_tracker[counter] += n`, up to the next read, the
\* next call or the return of evaluate()
StoreCounter(t) ==
    /\ usage_workers[t].pc = "store"
    /\ LET worker == usage_workers[t]
           counter == worker.counter
       IN  /\ usage_tracker' =
                 [usage_tracker EXCEPT ![counter] = worker.loaded + increment(worker)]
           /\ usage_log' =
                 [usage_log EXCEPT
                     !.recorded[counter] = @ + increment(worker),
                     !.evaluations =
                         IF counter = "llm_rule_evaluations" THEN @ + 1 ELSE @]
           /\ usage_workers' =
                 [usage_workers EXCEPT
                     ![t] = IF counter = "llm_rule_evaluations"
                            THEN [IdleWorker EXCEPT !.left = worker.left - 1]
                            ELSE IF counter = "total_api_calls" /\ ~worker.final
                            THEN [worker EXCEPT !.pc = "call", !.round_num = @ + 1,
                                                !.counter = None, !.loaded = 0,
                                                !.usage = NoUsageReport]
                            ELSE [worker EXCEPT
                                    !.pc = "load", !.loaded = 0,
                                    !.counter = CounterAfter(counter, 1)]]
    /\ UNCHANGED <<engine_vars, loader, field_check_vars, repeat, batch_vars>>

\* POST /api/usage/reset
ResetUsageStats ==
    /\ usage_tracker' = ZeroCounters
    /\ usage_log' = [NoUsageLog EXCEPT !.reset_raced = \E t \in Workers : Busy(t)]
    /\ UNCHANGED usage_workers
    /\ UNCHANGED <<engine_vars, loader, field_check_vars, repeat, batch_vars>>

NextUsage ==
    \/ \E t \in Workers : StartEvaluate(t)
    \/ \E t \in Workers : MessagesCreate(t)
    \/ \E t \in Workers : LoadCounter(t)
    \/ \E t \in Workers : StoreCounter(t)
    \/ ResetUsageStats

SpecUsage == Init /\ [][NextUsage]_vars

(***************************************************************************)
(* Properties.  A finished call of execute_rule is read from ret: its      *)
(* arguments and resolved phase in ret.call, what it handed back in        *)
(* ret.kind, ret.result and ret.exc.                                       *)
(***************************************************************************)
Called == ret.kind # "none"

Returned == ret.kind = "return"

InRegistry(rule_id) == rule_id \in DOMAIN rules

\* the finished call went through LLMEvaluator.evaluate in real mode
EvaluateFinished == pc = "idle" /\ api_calls >= 1

AssistantTurns(transcript) ==
    {i \in 1..Len(transcript) : transcript[i].role = "assistant"}

ToolResults(transcript) ==
    {i \in 1..Len(transcript) :
        /\ transcript[i].role = "user"
        /\ transcript[i].content[1].type = "tool_result"}

\* C1: in real mode evaluate makes one model call per round of the loop,
\* never starts a sixth round and never makes a seventh call; every state of
\* the conversation has a next step, so the evaluation ends after at most 5
\* rounds plus the one call after the loop, and it ends by returning a result.
C1_BoundedEvaluation ==
    /\ round_num <= 5
    /\ api_calls <= 6
    /\ pc = "llm" =>
          /\ api_calls = round_num
          /\ ENABLED (LoopRound \/ FinalCall)
    /\ EvaluateFinished =>
          /\ Returned
          /\ api_calls \in (round_num + 1)..6
          /\ ret.result.rule_id = ret.call.rule_id
          /\ ret.result.subject_id = ret.call.subject_id

\* the model asked for tools in all five rounds and the sixth call, made
\* after the loop, produced the result
C1_Witness ==
    /\ EvaluateFinished
    /\ Returned
    /\ round_num = 5
    /\ api_calls = 6
    /\ last_response.kind = "ok"

\* the tool-use blocks of the assistant turn at position i of a transcript
ToolUsesOf(transcript, i) == SelectSeq(transcript[i].content, IsToolUse)

\* the assistant turn at position i is followed by the results of its own
\* tool calls, one message per call, in the order of the calls, and the next
\* message after them, if any, is the next assistant turn
Answered(transcript, i) ==
    LET uses == ToolUsesOf(transcript, i)
    IN  /\ Len(uses) >= 1
        /\ i + Len(uses) <= Len(transcript)
        /\ \A k \in 1..Len(uses) :
              transcript[i + k] =
                  Message("user",
                          <<ToolResultBlock(uses[k].id,
                                            execute_tool(uses[k].name, uses[k].input))>>)
        /\ i + Len(uses) < Len(transcript) =>
              transcript[i + Len(uses) + 1].role = "assistant"

\* every tool-result message of the transcript answers a tool-use block of
\* the nearest assistant turn before it, and no id is answered twice
NoStrayResult(transcript) ==
    /\ \A m \in ToolResults(transcript) :
          \E i \in AssistantTurns(transcript) :
              /\ i < m
              /\ m - i <= Len(ToolUsesOf(transcript, i))
    /\ \A m, n \in ToolResults(transcript) :
          transcript[m].content[1].tool_use_id =
              transcript[n].content[1].tool_use_id => m = n

\* C2: every request that follows a response with tool-use blocks carries
\* that response as an assistant turn, each assistant turn of the request is
\* followed by exactly one tool-result message per tool-use id, in the order
\* of the tool-use blocks and holding the result of that very call, and no
\* tool-result message answers anything else.
C2_ToolResultsPaired ==
    api_calls >= 1 =>
        /\ request[1] = Message("user", <<TextBlock("context")>>)
        /\ Cardinality(AssistantTurns(request)) = api_calls - 1
        /\ \A i \in AssistantTurns(request) : Answered(request, i)
        /\ NoStrayResult(request)
        /\ pc = "llm" =>
              /\ \A i \in AssistantTurns(messages) : Answered(messages, i)
              /\ NoStrayResult(messages)
              /\ Cardinality(AssistantTurns(messages)) = round_num

\* a request whose transcript holds an assistant turn with two tool calls and
\* a text block between them, and a later assistant turn
C2_Witness ==
    /\ api_calls >= 3
    /\ \E i \in AssistantTurns(request) :
          /\ Len(ToolUsesOf(request, i)) >= 2
          /\ \E j \in 1..Len(request[i].content) : request[i].content[j].type = "text"
          /\ \E j \in AssistantTurns(request) : j > i
          /\ request[i + 1].content[1].content # request[i + 2].content[1].content

\* C3: when a model call fails, in a round of the loop or after it, evaluate
\* returns a result with violated false, confidence low, requires_review
\* true and the error text in the reasoning; nothing is raised.
C3_EndpointFailure ==
    (EvaluateFinished /\ last_response.kind \notin {"ok", "none"}) =>
        /\ Returned
        /\ ~ret.result.violated
        /\ ret.result.confidence = "low"
        /\ ret.result.requires_review
        /\ ret.result.reasoning = <<"LLM evaluation error", last_response.kind>>
        /\ ret.call.caller = "api" => http.status = 200

\* the call made after the fifth round timed out
C3_Witness ==
    /\ EvaluateFinished
    /\ api_calls = 6
    /\ last_response.kind = "timeout"
    /\ ret.result.requires_review

\* C4: a call of execute_rule for a rule of the registry never raises: a
\* failure of the subject lookup, of the phase resolution, of the
\* applicability check or of the evaluator comes back as a result.
C4_NeverRaises ==
    (Called /\ InRegistry(ret.call.rule_id)) => Returned

\* C5: a call with a rule id that is not in the registry raises the
\* rule-not-found error and hands back no result, no other failure is
\* reported as rule-not-found, and the single-rule endpoint answers it, and
\* only it, with 404.
C5_RuleNotFound ==
    Called =>
        /\ ~InRegistry(ret.call.rule_id) <=>
              (ret.kind = "raise" /\ ret.exc = Raise("ValueError", "Rule not found").exc)
        /\ ret.call.caller = "api" =>
              (http.status = 404 <=> ~InRegistry(ret.call.rule_id))

\* the endpoint was asked for a rule id the registry does not hold, for a
\* subject that exists
C5_Witness ==
    /\ Called
    /\ ret.call.caller = "api"
    /\ ~InRegistry(ret.call.rule_id)
    /\ ret.call.subject_id \in DOMAIN subjects
    /\ http.status = 404
    /\ ret.result = RuleEvaluationResult(None, None)

\* the rows of a sequence of violation records or result rows
Rows(seq) == {seq[i] : i \in 1..Len(seq)}

\* every violation record execute_all_rules or the batch loop holds
ViolationRecords ==
    Rows(all_run.violations) \cup Rows(all_ret.violations)
        \cup Rows(subject_violations)

\* every result execute_all_rules holds
AllResults == Rows(all_run.results) \cup Rows(all_ret.results)

IsSkipped(result) ==
    /\ result.passed
    /\ ~result.violated
    /\ result.evaluation_method = "skipped"
    /\ result.tools_used = <<>>

\* C6: a call for a rule whose status is not 'active' returns passed,
\* not violated, method 'skipped', whatever the subject (known or not), the
\* visit context and the state of the database, with no model call and no
\* tool run; execute_all_rules and the batch loop hold only skipped results
\* and no violation record for such a rule.
C6_InactiveSkipped ==
    /\ (Called /\ InRegistry(ret.call.rule_id)
               /\ rules[ret.call.rule_id].status # "active") =>
          /\ Returned
          /\ IsSkipped(ret.result)
          /\ ret.call.study_phase = None
          /\ api_calls = 0
          /\ tools_used = <<>>
    /\ pc = "llm" => rules[frame.rule_id].status = "active"
    /\ \A v \in ViolationRecords : rules[v.rule_id].status = "active"
    /\ \A r \in AllResults \cup Rows(subject_results) :
          (InRegistry(r.rule_id) /\ rules[r.rule_id].status # "active")
              => (DOMAIN r = DOMAIN ret.result /\ IsSkipped(r))

\* execute_all_rules returned for one subject a violation of an active rule
\* and a skipped result of an inactive rule with the same parameters
C6_Witness ==
    /\ all_ret.kind = "return"
    /\ \E v \in Rows(all_ret.violations), r \in Rows(all_ret.results) :
          /\ rules[r.rule_id].status # "active"
          /\ rules[r.rule_id].parameters = rules[v.rule_id].parameters
          /\ IsSkipped(r)

\* C7: a call for an active rule and a subject id for which the lookup finds
\* no subject returns a result with violated false, the subject named as
\* the missing data and requires_review true; it does not raise.  (The code
\* names the missing item 'subject_data'.)
C7_SubjectNotFound ==
    (Called /\ InRegistry(ret.call.rule_id)
            /\ rules[ret.call.rule_id].status = "active"
            /\ ret.call.db # "get_subject_raises"
            /\ ret.call.subject_id \notin DOMAIN subjects) =>
        /\ Returned
        /\ ~ret.result.violated
        /\ ret.result.missing_data = <<"subject_data">>
        /\ ret.result.requires_review
        /\ ret.result.subject_id = ret.call.subject_id
        /\ ret.call.caller = "batch" => subject_violations = <<>>

\* an active model-evaluated rule was run by the endpoint for a subject id
\* the subjects table does not hold
C7_Witness ==
    /\ Called
    /\ ret.call.caller = "api"
    /\ InRegistry(ret.call.rule_id)
    /\ rules[ret.call.rule_id].status = "active"
    /\ rules[ret.call.rule_id].evaluation_type = LLM_TOOLS
    /\ ret.call.subject_id \notin DOMAIN subjects
    /\ ret.result.requires_review
    /\ http.status = 200

\* the call got as far as resolving the study phase
PhaseResolved == Called /\ ret.call.study_phase # None

HasRandomizationDate(subject) == subject.randomization_date \notin {None, ""}

Gated(rule, phase) ==
    /\ DOMAIN rule.applicable_phases # {}
    /\ \/ phase \notin DOMAIN rule.applicable_phases
       \/ /\ rule.applicable_phases[phase].is_dict
          /\ rule.applicable_phases[phase].has_check
          /\ ~rule.applicable_phases[phase].check

\* C9: for an active rule that declares phases, a resolved phase whose
\* entry is absent or has check false gives passed, not violated, method
\* 'not_applicable', with no evaluator run (no model call, no tool, no
\* conversation started); an active rule that declares no phases is never
\* answered 'not_applicable', whatever the phase.
C9_PhaseGating ==
    /\ (PhaseResolved /\ rules[ret.call.rule_id].status = "active") =>
          LET rule == rules[ret.call.rule_id]
          IN  /\ Gated(rule, ret.call.study_phase) =>
                    /\ Returned
                    /\ ret.result.passed
                    /\ ~ret.result.violated
                    /\ ret.result.evaluation_method = "not_applicable"
                    /\ ret.result.tools_used = <<>>
                    /\ api_calls = 0
                    /\ tools_used = <<>>
              /\ DOMAIN rule.applicable_phases = {} =>
                    /\ Returned
                    /\ ret.result.evaluation_method
                          \notin {"not_applicable", "skipped"}
    /\ pc = "llm" => ~Gated(rules[frame.rule_id], frame.study_phase)

\* a model-evaluated rule that declares phases was called with a visit
\* context naming a phase it has no entry for
C9_Witness ==
    /\ PhaseResolved
    /\ rules[ret.call.rule_id].evaluation_type = LLM_TOOLS
    /\ ret.call.visit_context.present
    /\ ret.call.study_phase \notin DOMAIN rules[ret.call.rule_id].applicable_phases
    /\ ret.result.evaluation_method = "not_applicable"

\* the call reached the dispatch on the rule's evaluation type
Dispatched ==
    /\ PhaseResolved
    /\ rule_applies_to_phase(rules[ret.call.rule_id], ret.call.study_phase)
          = [kind |-> "value", value |-> TRUE]

\* C10: a rule whose evaluation type is neither deterministic nor
\* llm_with_tools never comes back from the dispatch as a plain pass
\* (passed true, requires_review false).
C10_NoSilentPass ==
    (Dispatched /\ rules[ret.call.rule_id].evaluation_type
                        \notin {DETERMINISTIC, LLM_TOOLS}) =>
        ~(Returned /\ ret.result.passed /\ ~ret.result.requires_review)

\* the comparison `value operator threshold` of a field check with a
\* threshold that is not null: numbers are compared by order, text without
\* regard to case; a comparison that cannot be made is not met
ComparisonMet(operator, value, threshold) ==
    CASE operator = ">=" -> value.t = "num" /\ threshold.t = "num" /\ value.n >= threshold.n
      [] operator = ">"  -> value.t = "num" /\ threshold.t = "num" /\ value.n > threshold.n
      [] operator = "<=" -> value.t = "num" /\ threshold.t = "num" /\ value.n <= threshold.n
      [] operator = "<"  -> value.t = "num" /\ threshold.t = "num" /\ value.n < threshold.n
      [] operator \in {"==", "in"} -> Lower(Show(value)) = Lower(Show(threshold))
      [] operator = "!=" -> Lower(Show(value)) # Lower(Show(threshold))
      [] OTHER -> FALSE

\* C11: for every field value that is present, every operator and every
\* threshold that is not null, the field check of an inclusion rule is
\* violated exactly when the comparison is not met, and that of an exclusion
\* rule (also the default when rule_type is absent or anything else) exactly
\* when it is met; on the same input an inclusion rule and an exclusion rule
\* never agree on violated, and passed is the opposite of violated.
C11_PolarityInversion ==
    fc_args.value # Null =>
        \A rule_type \in DOMAIN fc_results :
            LET out == fc_results[rule_type]
                met == ComparisonMet(fc_args.operator, fc_args.value, fc_args.threshold)
            IN  /\ out.kind = "return"
                /\ out.result.passed = ~out.result.violated
                /\ fc_args.threshold # Null =>
                      out.result.violated =
                          IF rule_type = "inclusion" THEN ~met ELSE met
                /\ \A other \in DOMAIN fc_results :
                      (rule_type = "inclusion" /\ other # "inclusion") =>
                          out.result.violated # fc_results[other].result.violated

\* age 17 against the threshold 18 with '>=' was evaluated for an inclusion
\* rule (violated) and for an exclusion rule (not violated)
C11_Witness ==
    /\ fc_args = [operator |-> ">=", value |-> Num(17), threshold |-> Num(18)]
    /\ {"inclusion", "exclusion"} \subseteq DOMAIN fc_results
    /\ fc_results["inclusion"].result.violated
    /\ ~fc_results["exclusion"].result.violated
\* a deterministic lab / ECG threshold rule
IsLabRule(rule) ==
    rule.evaluation_type = DETERMINISTIC /\ "test_name" \in DOMAIN rule.parameters
        /\ DOMAIN rule.parameters \cap {"field_name", "check_type"} = {}

\* the subject has a value for the test: an ECG reading for the QT family,
\* else a laboratory row for the test whose value is not null
ValueResolves(subject_id, test_name) ==
    IF test_name \in {"QTcF", "QTc", "QT"}
    THEN /\ subject_id \in DOMAIN EcgTable
         /\ \E column \in DOMAIN EcgTable[subject_id] : EcgTable[subject_id][column] # <<>>
    ELSE /\ subject_id \in DOMAIN LabTable
         /\ test_name \in DOMAIN LabTable[subject_id]
         /\ LabTable[subject_id][test_name] # Null

\* the finished call evaluated a lab / ECG rule with the database answering
LabChecked ==
    /\ Dispatched
    /\ ret.call.db = "ok"
    /\ IsLabRule(rules[ret.call.rule_id])

\* C12: a deterministic lab or ECG threshold check that finds no value for
\* the test (no record, or a latest record whose value is null) returns not
\* violated, with the test name in missing_data and requires_review set,
\* for inclusion and exclusion rules alike.
C12_MissingDataNeverViolates ==
    (LabChecked /\ ~ValueResolves(ret.call.subject_id,
                                  rules[ret.call.rule_id].parameters.test_name)) =>
        /\ Returned
        /\ ~ret.result.violated
        /\ ret.result.missing_data = <<rules[ret.call.rule_id].parameters.test_name>>
        /\ ret.result.requires_review

\* C13: every result execute_rule returns, on every path, carries a
\* severity when it is violated, and is never both passed and violated.
C13_ResultWellFormed ==
    Returned =>
        /\ ret.result.violated => ret.result.severity \in RuleSeverity
        /\ ~(ret.result.passed /\ ret.result.violated)

\* a violated result parsed from the model's answer came back with the
\* rule's severity
C13_Witness ==
    /\ Returned
    /\ api_calls >= 1
    /\ ret.result.evaluation_method = "llm_with_tools"
    /\ ret.result.violated /\ ~ret.result.passed
    /\ ret.result.severity = rules[ret.call.rule_id].severity

\* the outcome is a result of the deterministic strategy or of the mock
\* evaluation that stands in for the model
DeterministicOrMock(out) ==
    /\ out.kind = "return"
    /\ out.result.evaluation_method \in {"deterministic", "llm_with_tools_mock"}

Pairs(seq) == [i \in 1..Len(seq) |-> <<seq[i].subject_id, seq[i].rule_id>>]

\* the results with violated = true; a failed row of the batch has no such key
ViolatedOf(results) ==
    SelectSeq(results, LAMBDA r : "violated" \in DOMAIN r /\ r.violated)

\* C15: in execute_all_rules and in the batch loop the violation records
\* are, in order, the (subject, rule) pairs of the results with violated =
\* true, one record per such result, and violations_found is their number;
\* passed, skipped, not-applicable and error results produce none.
C15_ViolationsMatchResults ==
    /\ Pairs(all_run.violations) = Pairs(ViolatedOf(all_run.results))
    /\ Pairs(all_ret.violations) = Pairs(ViolatedOf(all_ret.results))
    /\ all_ret.violations_found = Len(ViolatedOf(all_ret.results))
    /\ Pairs(subject_violations) = Pairs(ViolatedOf(subject_results))

\* execute_all_rules returned violated and not violated results, an error
\* result among them
C15_Witness ==
    /\ all_ret.kind = "return"
    /\ all_ret.violations_found >= 2
    /\ \E r \in Rows(all_ret.results) : ~r.violated /\ r.evaluation_method = "skipped"
    /\ \E r \in Rows(all_ret.results) : ~r.violated /\ r.evaluation_method = "not_applicable"
    /\ \E r \in Rows(all_ret.results) : ~r.violated /\ r.passed /\ r.evaluation_method = "deterministic"
    /\ \E r \in Rows(all_ret.results) : ~r.violated /\ r.requires_review /\ ~r.passed
                                               /\ r.evaluation_method = ""

\* the jobs in memory, with their threads
Jobs == DOMAIN batch_jobs

Terminal(status) == status \in {"done", "error"}

\* the rows of the entries of the subjects a thread has finished, and of
\* the subject it is working on
JobRows(t) ==
    UNION {Rows(t.all_results[n].results) : n \in 1..Len(t.all_results)}
        \cup Rows(t.subject_results)

\* execute_rule raises for this pair
Throws(rule_id, subject_id, env) ==
    batch_execute_rule(rule_id, subject_id, env).kind = "raise"

\* C16: an evaluation that throws leaves a failed row carrying the error for
\* its (subject, rule) pair and stops nothing: the loop goes on to the next
\* rule and subject, and a job that ends in error does so because the
\* executor could not be built or the result could not be written, never
\* because of an evaluation; a job that is done has completed every subject
\* submitted, with one entry per subject and one row per rule in each.
C16_BatchResilience ==
    \A job_id \in Jobs :
        LET job == batch_jobs[job_id]
            t == batch_threads[job_id]
        IN  /\ \A row \in JobRows(t) : "error" \in DOMAIN row => ~row.passed
            /\ (t.pc = "loop" /\ t.j > 0) =>
                    LET row == t.subject_results[t.j]
                    IN  /\ row.rule_id = rules_to_run(t.rule_ids)[t.j]
                        /\ row.subject_id = t.subject_ids[t.i + 1]
                        /\ "error" \in DOMAIN row <=> Throws(row.rule_id, row.subject_id, t.env)
            /\ job.status = "error" => job.error \in {"FileNotFoundError", "OSError"}
            /\ job.status = "done" =>
                    /\ job.completed_subjects = Len(t.subject_ids)
                    /\ job.completed = Len(t.subject_ids)
                    /\ Len(job.results) = Len(t.subject_ids)
                    /\ \A n \in 1..Len(job.results) :
                            /\ job.results[n].subject_id = t.subject_ids[n]
                            /\ Len(job.results[n].results) = Len(rules_to_run(t.rule_ids))

\* a job over five subjects is done with completed_subjects = 5 although
\* the subjects table could not be read for the third subject, and for no
\* other
C16_Witness ==
    \E job_id \in Jobs :
        LET job == batch_jobs[job_id]
        IN  /\ job.status = "done"
            /\ job.completed_subjects = 5
            /\ \E row \in Rows(job.results[3].results) :
                    "error" \in DOMAIN row /\ row.rule_id = "INCL001"
            /\ \A n \in {1, 2, 4, 5} :
                    \A row \in Rows(job.results[n].results) :
                        row.rule_id = "INCL001" => "error" \notin DOMAIN row

\* the number of violations recorded in the entries of the finished subjects
RECURSIVE ViolationsRecorded(_)
ViolationsRecorded(entries) ==
    IF entries = <<>> THEN 0
    ELSE Len(Head(entries).violations) + ViolationsRecorded(Tail(entries))

\* pct is completed / total * 100 rounded to a nearest integer
IsPercentage(pct, completed, total) ==
    /\ 2 * (pct * total - 100 * completed) <= total
    /\ 2 * (100 * completed - pct * total) <= total

ProgressConsistent ==
    \A job_id \in Jobs :
        LET job == batch_jobs[job_id]
            t == batch_threads[job_id]
        IN  /\ job.completed \in 0..job.total
            /\ job.total = Len(t.subject_ids)
            /\ job.completed = Len(t.all_results)
            /\ job.completed > 0 => IsPercentage(job.progress_pct, job.completed, job.total)
            /\ job.completed = 0 => job.progress_pct = 0
            /\ job.violations_so_far = ViolationsRecorded(t.all_results)

CompletedNeverDecreases ==
    \A job_id \in Jobs :
        job_id \in DOMAIN batch_jobs' =>
            batch_jobs'[job_id].completed >= batch_jobs[job_id].completed

ThreadExited(job_id) == batch_threads[job_id].pc = "exited"

\* C18: the record of a batch job is written to the results directory
\* exactly once, when the job reaches done or error: there is no file while
\* the job is queued or running, never a second write, and a job whose
\* thread has ended in a terminal status has its file, also when the write
\* or the final bookkeeping failed.
C18_PersistedExactlyOnce ==
    \A job_id \in Jobs :
        /\ Len(results_dir[job_id]) <= 1
        /\ ~Terminal(batch_jobs[job_id].status) => Len(results_dir[job_id]) = 0
        /\ ThreadExited(job_id) =>
                /\ Terminal(batch_jobs[job_id].status)
                /\ Len(results_dir[job_id]) = 1

\* the latest request was a status request
StatusReply == batch_reply.request = "status"

\* C19: a status request is answered from the record in memory when there
\* is one and from the results directory otherwise; once a status request
\* has returned done for a job every later one returns done for it, also
\* after a restart of the process; only a job id that was never issued is
\* answered with not found.
C19_StatusStable ==
    StatusReply =>
        /\ batch_reply.job_id \in Jobs =>
                /\ batch_reply.code = 200
                /\ batch_reply.status = batch_jobs[batch_reply.job_id].status
        /\ batch_reply.job_id \in returned_done =>
                batch_reply.code = 200 /\ batch_reply.status = "done"
        /\ batch_reply.code = 404 <=> batch_reply.job_id \notin submitted

\* the submit request has just returned: the job is queued, nothing is
\* completed and its thread has not taken a step
SubmitReturnsQueued ==
    batch_reply.request = "submit" =>
        /\ batch_reply.status = "queued"
        /\ batch_jobs[batch_reply.job_id].status = "queued"
        /\ batch_jobs[batch_reply.job_id].completed = 0
        /\ batch_threads[batch_reply.job_id].pc = "start"

\* the status of a job changes from queued to running and from running to
\* done or error, and in no other way
StatusAdvances ==
    \A job_id \in Jobs :
        job_id \in DOMAIN batch_jobs' =>
            \/ batch_jobs'[job_id].status = batch_jobs[job_id].status
            \/ /\ batch_jobs[job_id].status = "queued"
               /\ batch_jobs'[job_id].status = "running"
            \/ /\ batch_jobs[job_id].status = "running"
               /\ Terminal(batch_jobs'[job_id].status)

\* C20: submit records the job as queued with completed = 0 and returns the
\* job id before anything is evaluated; from there the status moves from
\* queued to running and from running to done or error.
C20_Lifecycle == []SubmitReturnsQueued /\ [][StatusAdvances]_vars

\* C20, under fair scheduling of the job threads: a job in memory reaches
\* done or error, unless the process is restarted first.
C20_EventuallyTerminal ==
    \A job_id \in JobIds :
        (job_id \in Jobs) ~> (job_id \notin Jobs \/ Terminal(batch_jobs[job_id].status))


(***************************************************************************)
(* C21.  When evaluations running in different threads have recorded their *)
(* model calls and all of them have finished, every counter of the usage   *)
(* accumulator equals the sum of the increments the evaluations applied to *)
(* it since the last reset: no increment is lost, whatever the             *)
(* interleaving.  A reset issued while an evaluation runs is left aside.   *)
(***************************************************************************)
AllIdle == \A t \in Workers : ~Busy(t)

C21_NoLostIncrement ==
    (AllIdle /\ ~usage_log.reset_raced) => usage_tracker = usage_log.recorded

(***************************************************************************)
(* C28.  After evaluations that ran one after the other since the last     *)
(* reset, total_api_calls equals the number of model calls issued and      *)
(* llm_rule_evaluations equals the number of evaluations performed, in     *)
(* real mode, in mock mode and when the provider failed; a reset leaves    *)
(* the four counters at zero.                                              *)
(***************************************************************************)
Sequential == ~usage_log.concurrent /\ ~usage_log.reset_raced

AccountingComplete ==
    (AllIdle /\ Sequential) =>
        /\ usage_tracker["total_api_calls"] = usage_log.calls_issued
        /\ usage_tracker["llm_rule_evaluations"] = usage_log.evaluations

ResetZeroes == ResetUsageStats => usage_tracker' = ZeroCounters

C28_UsageAccountingComplete == []AccountingComplete /\ [][ResetZeroes]_vars


(***************************************************************************)
(* C22.  Once a client has asked for a running job to be cancelled, the    *)
(* job's thread starts no further subject, and when the thread has ended   *)
(* the job's status is cancelled, never done.                              *)
(***************************************************************************)
\* the thread runs the first rule of a subject in this step
StartsSubject(job_id) ==
    /\ job_id \in DOMAIN batch_threads /\ job_id \in DOMAIN batch_threads'
    /\ batch_threads[job_id].j = 0
    /\ batch_threads'[job_id].j = 1

NoSubjectStartedAfterCancel ==
    \A job_id \in cancel_requests : ~StartsSubject(job_id)

\* a job that failed may end with status error
CancelledWhenEnded ==
    \A job_id \in cancel_requests \cap DOMAIN batch_jobs :
        batch_threads[job_id].pc = "exited" =>
            batch_jobs[job_id].status \in {"cancelled", "error"}

C22_CooperativeCancellation ==
    []CancelledWhenEnded /\ [][NoSubjectStartedAfterCancel]_vars


(***************************************************************************)
(* C23.  When _load_rules has gone through the documents, every entry that *)
(* is well formed (a record with the required keys whose fields the enums  *)
(* accept), in a list under a key other than the metadata key of a         *)
(* document that parsed, is in the registry under its rule_id, whatever    *)
(* unparsable documents and malformed entries surround it; of two entries  *)
(* with the same rule_id the registry holds the later one; nothing         *)
(* malformed is in the registry and the load has not failed.               *)
(***************************************************************************)
WellFormed(entry) ==
    /\ EntryTable[entry].is_dict
    /\ RequiredKeys \subseteq DOMAIN EntryTable[entry].data
    /\ EntryTable[entry].data.category \in RuleCategory
    /\ JsonGet(EntryTable[entry].data, "severity", "major") \in RuleSeverity

RECURSIVE Flatten(_)
Flatten(seqs) == IF Len(seqs) = 0 THEN <<>> ELSE Head(seqs) \o Flatten(Tail(seqs))

\* the rule entries of the documents, in load order
RuleEntries(docs) ==
    Flatten([d \in 1..Len(docs) |->
        LET doc == DocumentTable[docs[d]]
            lists == SelectSeq(doc.items,
                               LAMBDA item : item.is_list /\ item.key # "protocol")
        IN  IF doc.parse = "ok" /\ doc.config = "mapping"
            THEN Flatten([k \in 1..Len(lists) |-> lists[k].value])
            ELSE <<>>])

LoadFinished == loader.failed \/ loader.next > Len(loader.docs)

C23_LoadTolerant ==
    LoadFinished =>
        LET entries == SelectSeq(RuleEntries(loader.docs), WellFormed)
            IdOf(i) == EntryTable[entries[i]].data.rule_id
        IN  /\ ~loader.failed
            /\ DOMAIN loader.rules = {IdOf(i) : i \in 1..Len(entries)}
            /\ \A i \in 1..Len(entries) :
                  (\A k \in (i + 1)..Len(entries) : IdOf(k) # IdOf(i)) =>
                      /\ loader.rules[IdOf(i)].rule_id = IdOf(i)
                      /\ loader.rules[IdOf(i)].status =
                            JsonGet(EntryTable[entries[i]].data, "status", "active")
                      /\ loader.rules[IdOf(i)].category =
                            EntryTable[entries[i]].data.category

\* a well-formed entry that follows malformed ones in its document, after
\* an unparsable document, has been loaded
C23_Witness ==
    /\ LoadFinished
    /\ \E d \in 1..Len(loader.docs) : loader.docs[d] = "unparsable"
    /\ \E d \in 1..Len(loader.docs) : loader.docs[d] = "mixed"
    /\ "R1" \in DOMAIN loader.rules


(***************************************************************************)
(* C24.  A violated result of the deterministic evaluator or of the LLM    *)
(* path carries the action of the resolved phase's entry: its              *)
(* action_if_violated in the phases screening and baseline, its            *)
(* action_if_discovered in the phase post_randomization, also when the     *)
(* entry has both keys and whatever action the model proposed.  A result   *)
(* of the deterministic evaluator that is not violated has no action.      *)
(***************************************************************************)
Evaluated ==
    /\ Returned
    /\ ret.call.study_phase # None
    /\ ret.result.evaluation_method \in
          {"deterministic", "llm_with_tools", "llm_with_tools_mock"}

C24_ActionFromPhase ==
    Evaluated =>
        LET phase_config == phase_config_of(rules[ret.call.rule_id], ret.call.study_phase)
            result == ret.result
        IN  /\ ( /\ result.violated
                 /\ ret.call.study_phase \in {"screening", "baseline"}
                 /\ Truthy(phase_config.action_if_violated) )
               => result.action_required = phase_config.action_if_violated
            /\ ( /\ result.violated
                 /\ ret.call.study_phase = "post_randomization"
                 /\ Truthy(phase_config.action_if_discovered) )
               => result.action_required = phase_config.action_if_discovered
            /\ (~result.violated /\ result.evaluation_method = "deterministic")
               => result.action_required = None

\* the loop ran all of its rounds and the call after it has been made
AfterFinalCall ==
    /\ Called
    /\ pc = "idle"
    /\ round_num = max_rounds
    /\ api_calls > max_rounds

\* what is true after the call that follows the last round
FinalCallParsed ==
    AfterFinalCall =>
        /\ api_calls = max_rounds + 1
        /\ request = messages
        /\ Cardinality(AssistantTurns(request)) = max_rounds
        /\ \A i \in AssistantTurns(request) : Answered(request, i)
        /\ Len(request) = 1 + max_rounds + ToolUseCount(request)
        /\ Len(tools_used) = ToolUseCount(request)
        /\ last_response.kind = "ok" =>
              ret.result =
                  llm_override(rules[ret.call.rule_id], ret.call.study_phase,
                               parse_llm_response(last_response, rules[ret.call.rule_id],
                                                  ret.call.subject_id, tools_used))

\* the step taken once the rounds are used up is the one call that ends the
\* evaluation, and it adds nothing to the conversation
CapEndsEvaluation ==
    (pc = "llm" /\ round_num = max_rounds) =>
        \/ UNCHANGED vars
        \/ /\ pc' = "idle"
           /\ api_calls' = max_rounds + 1
           /\ messages' = messages
           /\ tools_used' = tools_used

\* C25: when the model still asks for tools in round 5, the tool calls of
\* that round are executed and answered in the conversation; then exactly one
\* more call is made with the whole conversation, its response is parsed as
\* it is, the tool calls that response may hold are never executed, and no
\* further call follows.
C25_FinalCallAfterCap == []FinalCallParsed /\ [][CapEndsEvaluation]_vars

\* the sixth response again asks for tools and is parsed all the same
C25_Witness ==
    /\ AfterFinalCall
    /\ last_response.kind = "ok"
    /\ \E i \in 1..Len(last_response.content) : IsToolUse(last_response.content[i])
    /\ Len(ret.result.tools_used) >= max_rounds

\* the tool call cannot be served: the name is not in tool_map, or the
\* data-access function raises
ToolCallFails(use) == use.name \notin tool_map \/ ~use.input.valid

\* a tool result of the conversation carries an error payload
FailureInTranscript ==
    \E m \in ToolResults(messages) : messages[m].content[1].content.error # None

\* a round whose response asks for tools: every call gets its result under
\* its own id, an error payload exactly for the calls that failed, and the
\* loop goes on to the next model call
ToolFailureContained ==
    LET uses == SelectSeq(last_response'.content, IsToolUse)
    IN  (/\ pc = "llm"
         /\ loop_continues(round_num)
         /\ api_calls' = api_calls + 1
         /\ last_response'.kind = "ok"
         /\ last_response'.stop_reason = "tool_use"
         /\ Len(uses) > 0) =>
            /\ pc' = "llm"
            /\ round_num' = round_num + 1
            /\ ret' = ret
            /\ Len(messages') = Len(messages) + 1 + Len(uses)
            /\ tools_used' = tools_used \o [k \in 1..Len(uses) |-> uses[k].name]
            /\ \A k \in 1..Len(uses) :
                  LET answer == messages'[Len(messages) + 1 + k].content[1]
                  IN  /\ answer.type = "tool_result"
                      /\ answer.tool_use_id = uses[k].id
                      /\ answer.content.tool = uses[k].name
                      /\ (answer.content.error # None) <=> ToolCallFails(uses[k])

\* an evaluation in which a tool call failed still hands a result to its
\* caller, and no exception
EvaluationSurvives ==
    (EvaluateFinished /\ Called /\ FailureInTranscript) =>
        /\ Returned
        /\ ret.exc = NoExc
        /\ ret.result.rule_id = ret.call.rule_id

\* C26: a tool call that fails inside the loop (unknown tool name, or a
\* data-access call that raises) is caught for that call alone: its tool-use
\* id is answered with an error payload, the other calls of the round are
\* executed and answered, the loop goes on to the next model call, and the
\* evaluation returns a result to the caller instead of raising, so the subject
\* loop of a batch is not left.
C26_ToolFailureContained == []EvaluationSurvives /\ [][ToolFailureContained]_vars

\* an evaluation that ended with a parsed result after an unknown tool, and
\* a failing data-access call followed by a successful call in one round
C26_Witness ==
    /\ EvaluateFinished
    /\ Returned
    /\ last_response.kind = "ok"
    /\ \E m \in ToolResults(messages) :
          messages[m].content[1].content.error = "Unknown tool"
    /\ \E m \in ToolResults(messages) :
          /\ m < Len(messages)
          /\ messages[m].content[1].content.error = "TypeError"
          /\ messages[m + 1].role = "user"
          /\ messages[m + 1].content[1].content.error = None
    /\ Len(ret.result.tools_used) >= 3

\* the text blocks of the response the result was parsed from
FinalTexts == SelectSeq(last_response.content, LAMBDA b : b.type = "text")

\* the text of the response holds one well-formed structured object
ObjectParses ==
    /\ Cardinality({i \in 1..Len(FinalTexts) : TextPayloads[FinalTexts[i].text].braces}) = 1
    /\ \A i \in 1..Len(FinalTexts) :
          TextPayloads[FinalTexts[i].text].braces => TextPayloads[FinalTexts[i].text].json_ok

\* the structured object of the response sets the field to true
ObjectFlag(field) ==
    \E i \in 1..Len(FinalTexts) :
        /\ TextPayloads[FinalTexts[i].text].braces
        /\ field \in DOMAIN TextPayloads[FinalTexts[i].text].data
        /\ TextPayloads[FinalTexts[i].text].data[field] = TRUE

\* evaluate returned what _parse_llm_response made of the last response
ParsedResult == EvaluateFinished /\ Returned /\ last_response.kind = "ok"

\* a structured object flagged through either field gives a violated result
ViolationFlagMapped ==
    (ParsedResult /\ ObjectParses /\ (ObjectFlag("excluded") \/ ObjectFlag("violated"))) =>
        /\ ret.result.violated = TRUE
        /\ ret.result.passed = FALSE

\* a response without a structured object gives the result of the keyword
\* heuristic, marked for review with medium confidence
FallbackMarked ==
    (ParsedResult /\ ~ObjectParses) =>
        /\ ret.result.requires_review = TRUE
        /\ ret.result.confidence = "medium"
        /\ ret.result.violated = ~ret.result.passed

\* C27: a final response whose structured object has excluded=true or has
\* violated=true is parsed into a result with violated=true and passed=false;
\* when no structured object parses, the result comes from the keyword
\* heuristic and has requires_review=true and confidence "medium".
C27_ViolationFlagParsed == ViolationFlagMapped /\ FallbackMarked

\* a job in memory whose status is done or error keeps that status
TerminalKept ==
    \A job_id \in Jobs :
        (Terminal(batch_jobs[job_id].status) /\ job_id \in DOMAIN batch_jobs') =>
            batch_jobs'[job_id].status = batch_jobs[job_id].status

\* a job a status request has shown as done is done in memory
ObservedDoneStays ==
    \A job_id \in Jobs \cap returned_done : batch_jobs[job_id].status = "done"

\* C29: the terminal statuses of a batch job are absorbing: once the status
\* in memory is done or error it does not change again, and a job that a
\* status request has shown as done is never error afterwards, also when the
\* write of the result file fails.
C29_TerminalAbsorbing == []ObservedDoneStays /\ [][TerminalKept]_vars

\* the jobs in memory whose status is done
DoneJobs == {job_id \in Jobs : batch_jobs[job_id].status = "done"}

\* the sum of violations_found over the per-subject entries
RECURSIVE ViolationsFound(_)
ViolationsFound(entries) ==
    IF entries = <<>> THEN 0
    ELSE Head(entries).violations_found + ViolationsFound(Tail(entries))

DoneCompletedAll ==
    \A job_id \in DoneJobs :
        /\ batch_jobs[job_id].completed = batch_jobs[job_id].total
        /\ Len(batch_jobs[job_id].results) = batch_jobs[job_id].total

DoneAtHundred ==
    \A job_id \in DoneJobs : batch_jobs[job_id].progress_pct = 100

DoneViolationsSummed ==
    \A job_id \in DoneJobs :
        batch_jobs[job_id].total_violations = ViolationsFound(batch_jobs[job_id].results)

\* C30: whenever the status of a batch job is done, completed equals the
\* number of submitted subjects, progress_pct is 100 and total_violations is
\* the sum of violations_found over the per-subject results, for every
\* submitted subject list, the empty one included.
C30_DoneMeansFinished == DoneCompletedAll /\ DoneAtHundred /\ DoneViolationsSummed

=============================================================================
